---- MODULE Spec2Model ----
(***************************************************************************)
(* Verification model of the XLIFF tag-abstraction / token-safety codec    *)
(* (core/abstractor.py, core/token_safe_translation.py, core/qa.py,        *)
(* core/token_guard.py) and of the unit state machine that desktop_app.py  *)
(* drives around it.                                                       *)
(*                                                                         *)
(* A Python str is modelled as a sequence of one-character strings, so     *)
(* "A{1}" is <<"A", "{", "1", "}">>.  Scanners and regular expressions are *)
(* modelled by recursive operators that walk those sequences the way the   *)
(* code (or the regex engine) does.                                        *)
(***************************************************************************)
EXTENDS Integers, Sequences, FiniteSets, TLC

VARIABLES
    pc,               \* position of the call sequence under check
    source_text,      \* check_unit / validate argument
    target_text,      \* check_unit / validate argument
    unit_state,       \* check_unit argument
    qa_result,        \* QAResult returned by check_unit
    text,             \* split_by_known_tokens argument
    known,            \* set(tags_map.keys()) of split_by_known_tokens
    split_result,     \* SplitResult, or the ValueError raised instead
    reassembled,      \* value returned by reassemble_from_chunks
    stripped,         \* value returned by strip_known_tokens
    tags_map,         \* TokenGuard.validate argument
    guard_result,     \* ValidationResult returned by TokenGuard.validate
    raw_xml,          \* TagAbstractor.abstract argument
    abs_result,       \* AbstractionResult returned by abstract
    recon,            \* value returned by TagAbstractor.reconstruct
    units,            \* MainWindow.units, by position
    autosave_file,    \* the autosave patch on disk
    is_dirty,         \* MainWindow.is_dirty
    qa_counts,        \* (error_count, warning_count) returned by QAService.run_qa
    workbench,        \* AIWorkbenchFrame attributes and its Apply button
    active_unit_index_map, \* MainWindow.active_unit_index_map
    selection,        \* rows selected in the main table
    wb_worker,        \* WorkbenchWorker: "idle" or "running"
    btn_trans,        \* MainWindow.btn_trans.isEnabled()
    trans_worker,     \* TranslationWorker: position of run, is_running
    client_calls,     \* calls received by the client of the TranslationWorker
    signals,          \* signals emitted by the worker, not yet delivered
    disk,             \* content of the paths written by the two save routines
    save_op,          \* position inside save_patch / atomic_save_file
    xliff_file        \* <source> and <target> of the trans-unit of the open file

qa_vars == <<source_text, target_text, unit_state, qa_result>>
split_vars == <<text, known, split_result, reassembled, stripped>>
guard_vars == <<tags_map, guard_result>>
abs_vars == <<raw_xml, abs_result, recon>>

app_vars == <<units, autosave_file, is_dirty>>
svc_vars == <<qa_counts>>
wb_vars == <<workbench, active_unit_index_map, selection, wb_worker>>
run_vars == <<btn_trans, trans_worker, client_calls, signals>>
fs_vars == <<disk, save_op, xliff_file>>

vars == <<pc, qa_vars, split_vars, guard_vars, abs_vars, app_vars, svc_vars, wb_vars,
          run_vars, fs_vars>>

(***************************************************************************)
(* Bounds of the model.                                                    *)
(***************************************************************************)
MaxSrcLen == 2
MaxTgtLen == 3
MaxTextLen == 3
MaxTags == 2
MaxRawLen == 4
MaxQAUnits == 2

(***************************************************************************)
(* Generic helpers on sequences.                                           *)
(***************************************************************************)
Range(s) == {s[i] : i \in DOMAIN s}

Max(a, b) == IF a >= b THEN a ELSE b

RECURSIVE Flatten(_)
Flatten(ss) == IF ss = <<>> THEN <<>> ELSE Head(ss) \o Flatten(Tail(ss))

RECURSIVE SumSeq(_)
SumSeq(ns) == IF ns = <<>> THEN 0 ELSE Head(ns) + SumSeq(Tail(ns))

RECURSIVE Repeat(_, _)
Repeat(x, n) == IF n <= 0 THEN <<>> ELSE <<x>> \o Repeat(x, n - 1)

PieceSeqs(pieces, maxlen) == UNION {[1..n -> pieces] : n \in 0..maxlen}

Texts(pieces, maxlen) == {Flatten(ps) : ps \in PieceSeqs(pieces, maxlen)}

\* Number of positions of seq that hold x.
Occ(x, seq) == Cardinality({i \in DOMAIN seq : seq[i] = x})

(***************************************************************************)
(* Characters.                                                             *)
(***************************************************************************)
IsDigit(c) == c \in {"0", "1", "2", "3", "4", "5", "6", "7", "8", "9"}

\* Code point order of the characters the model uses (Python compares str
\* by code point).
Ord(c) ==
    CASE c = "0" -> 48 [] c = "1" -> 49 [] c = "2" -> 50 [] c = "3" -> 51
      [] c = "4" -> 52 [] c = "5" -> 53 [] c = "6" -> 54 [] c = "7" -> 55
      [] c = "8" -> 56 [] c = "9" -> 57 [] c = "a" -> 97 [] c = "{" -> 123
      [] c = "}" -> 125 [] OTHER -> 200

RECURSIVE StrLess(_, _)
StrLess(s, t) ==
    IF t = <<>> THEN FALSE
    ELSE IF s = <<>> THEN TRUE
    ELSE IF Ord(Head(s)) # Ord(Head(t)) THEN Ord(Head(s)) < Ord(Head(t))
    ELSE StrLess(Tail(s), Tail(t))

RECURSIVE InsertSorted(_, _)
InsertSorted(x, seq) ==
    IF seq = <<>> THEN <<x>>
    ELSE IF StrLess(x, Head(seq)) THEN <<x>> \o seq
    ELSE <<Head(seq)>> \o InsertSorted(x, Tail(seq))

\* sorted(list_of_str)
RECURSIVE sorted(_)
sorted(seq) == IF seq = <<>> THEN <<>>
               ELSE InsertSorted(Head(seq), sorted(Tail(seq)))

(***************************************************************************)
(* The token regex \{\d+\} (qa.py:24, token_guard.py:21, validator.py:15). *)
(***************************************************************************)
\* First index >= j of s that does not hold a digit (Len(s)+1 if none).
RECURSIVE DigitsEnd(_, _)
DigitsEnd(s, j) == IF j <= Len(s) /\ IsDigit(s[j]) THEN DigitsEnd(s, j + 1)
                   ELSE j

\* Index of the closing brace of a \{\d+\} match starting at i, 0 if none.
TokenEnd(s, i) ==
    IF s[i] # "{" THEN 0
    ELSE LET j == DigitsEnd(s, i + 1)
         IN IF j > i + 1 /\ j <= Len(s) /\ s[j] = "}" THEN j ELSE 0

\* re.findall(r"\{\d+\}", s): the non-overlapping matches, left to right.
RECURSIVE FindTokensFrom(_, _)
FindTokensFrom(s, i) ==
    IF i > Len(s) THEN <<>>
    ELSE IF TokenEnd(s, i) # 0
         THEN <<SubSeq(s, i, TokenEnd(s, i))>> \o FindTokensFrom(s, TokenEnd(s, i) + 1)
         ELSE FindTokensFrom(s, i + 1)

valid_token_findall(s) == FindTokensFrom(s, 1)

\* re.findall(r"\{(?!\d+\})", s): one match "{" for every brace at which
\* the negative lookahead succeeds.
RECURSIVE InvalidFrom(_, _)
InvalidFrom(s, i) ==
    IF i > Len(s) THEN <<>>
    ELSE IF s[i] = "{" /\ DigitsEnd(s, i + 1) > i + 1
              /\ DigitsEnd(s, i + 1) <= Len(s) /\ s[DigitsEnd(s, i + 1)] = "}"
         THEN InvalidFrom(s, i + 1)
         ELSE IF s[i] = "{" THEN <<<<"{">>>> \o InvalidFrom(s, i + 1)
         ELSE InvalidFrom(s, i + 1)

\* A lookahead that only tests the next character: r"\{(?!\d)".
RECURSIVE InvalidNoDigitFrom(_, _)
InvalidNoDigitFrom(s, i) ==
    IF i > Len(s) THEN <<>>
    ELSE IF s[i] = "{" /\ ~ (i < Len(s) /\ IsDigit(s[i + 1]))
         THEN <<<<"{">>>> \o InvalidNoDigitFrom(s, i + 1)
         ELSE InvalidNoDigitFrom(s, i + 1)

invalid_token_findall_next_char(s) == InvalidNoDigitFrom(s, 1)

invalid_token_findall(s) == InvalidFrom(s, 1)

(***************************************************************************)
(* collections.Counter: an insertion-ordered dict from element to count.   *)
(* keys is the order of first insertion, cnt the count of every key.       *)
(***************************************************************************)
RECURSIVE CounterAdd(_, _)
CounterAdd(c, elems) ==
    IF elems = <<>> THEN c
    ELSE LET e == Head(elems)
             c1 == IF e \in DOMAIN c.cnt
                   THEN [c EXCEPT !.cnt = [c.cnt EXCEPT ![e] = @ + 1]]
                   ELSE [keys |-> Append(c.keys, e),
                         cnt  |-> [k \in DOMAIN c.cnt \cup {e} |->
                                      IF k = e THEN 1 ELSE c.cnt[k]]]
         IN CounterAdd(c1, Tail(elems))

Counter(elems) == CounterAdd([keys |-> <<>>, cnt |-> <<>>], elems)

\* Counter.__getitem__: a missing key counts 0.
CounterGet(c, k) == IF k \in DOMAIN c.cnt THEN c.cnt[k] ELSE 0

RECURSIVE SumCounts(_, _)
SumCounts(c, i) == IF i > Len(c.keys) THEN 0
                   ELSE c.cnt[c.keys[i]] + SumCounts(c, i + 1)

(***************************************************************************)
(* QAChecker.check_unit (core/qa.py).                                      *)
(***************************************************************************)
\* for token, count in a.items(): if b[token] < count:
\*     out.extend([token] * (count - b[token]))
RECURSIVE qa_deficit(_, _, _)
qa_deficit(a, b, i) ==
    IF i > Len(a.keys) THEN <<>>
    ELSE LET token == a.keys[i]
             count == a.cnt[token]
         IN (IF CounterGet(b, token) < count
             THEN Repeat(token, count - CounterGet(b, token))
             ELSE <<>>) \o qa_deficit(a, b, i + 1)

\* Set semantics: a token is missing only when the target lacks it entirely.
qa_missing_tokens_set(source, target) ==
    LET a == Counter(valid_token_findall(source))
        b == Counter(valid_token_findall(target))
    IN SelectSeq(a.keys, LAMBDA t : CounterGet(b, t) = 0)

qa_missing_tokens(source, target) ==
    qa_deficit(Counter(valid_token_findall(source)),
               Counter(valid_token_findall(target)), 1)

qa_extra_tokens(source, target) ==
    qa_deficit(Counter(valid_token_findall(target)),
               Counter(valid_token_findall(source)), 1)

QAIssue(type, severity, details) ==
    [type |-> type, severity |-> severity, details |-> details]

\* The emptiness test dropped from the warning branch.
qa_status_of_any_target(has_errors, target, state) ==
    IF has_errors THEN "error"
    ELSE IF state \in {"translated", "edited"} THEN "warning"
    ELSE "ok"

\* The warning branch taken for state translated only.
qa_status_of_translated_only(has_errors, target, state) ==
    IF has_errors THEN "error"
    ELSE IF target = <<>> /\ state = "translated" THEN "warning"
    ELSE "ok"

qa_status_of(has_errors, target, state) ==
    IF has_errors THEN "error"
    ELSE IF target = <<>> /\ state \in {"translated", "edited"} THEN "warning"
    ELSE "ok"

check_unit(source, target, state) ==
    LET source_counts == Counter(valid_token_findall(source))
        target_counts == Counter(valid_token_findall(target))
        missing_tokens == qa_missing_tokens(source, target)
        extra_tokens == qa_extra_tokens(source, target)
        invalid_matches == invalid_token_findall(target)
        tag_stats == <<"TAG", SumCounts(target_counts, 1), SumCounts(source_counts, 1)>>
        has_errors == missing_tokens # <<>> \/ extra_tokens # <<>> \/ invalid_matches # <<>>
        status == qa_status_of(has_errors, target, state)
        issues ==
            (IF missing_tokens # <<>>
             THEN <<QAIssue("missing", "error", sorted(missing_tokens))>> ELSE <<>>)
            \o (IF extra_tokens # <<>>
                THEN <<QAIssue("extra", "error", sorted(extra_tokens))>> ELSE <<>>)
            \o (IF invalid_matches # <<>>
                THEN <<QAIssue("invalid", "error", invalid_matches)>> ELSE <<>>)
            \o (IF status = "warning"
                THEN <<QAIssue("empty", "warning", <<>>)>> ELSE <<>>)
        qa_details ==
            [k \in {kk \in {"missing", "extra", "invalid"} :
                       \/ kk = "missing" /\ missing_tokens # <<>>
                       \/ kk = "extra" /\ extra_tokens # <<>>
                       \/ kk = "invalid" /\ invalid_matches # <<>>} |->
                IF k = "missing" THEN sorted(missing_tokens)
                ELSE IF k = "extra" THEN sorted(extra_tokens)
                ELSE invalid_matches]
    IN [status |-> status, issues |-> issues, tag_stats |-> tag_stats,
        qa_details |-> qa_details]

(***************************************************************************)
(* core/token_safe_translation.py.                                         *)
(***************************************************************************)
\* flush_buf(force): the locals chunks and buf after the call.
flush_buf(force, buf, chunks) ==
    IF force \/ buf # <<>> \/ chunks = <<>>
    THEN [chunks |-> Append(chunks, buf), buf |-> <<>>]
    ELSE [chunks |-> chunks, buf |-> buf]

\* The while loop of split_by_known_tokens, from index i (1-based) with
\* the locals buf, chunks and tokens; yields the locals at loop exit.
RECURSIVE split_loop(_, _, _, _, _, _)
split_loop(s, keys, i, buf, chunks, tokens) ==
    IF i > Len(s) THEN [buf |-> buf, chunks |-> chunks, tokens |-> tokens]
    ELSE IF s[i] # "{"
         THEN split_loop(s, keys, i + 1, Append(buf, s[i]), chunks, tokens)
    ELSE IF i + 1 > Len(s) \/ ~ IsDigit(s[i + 1])
         THEN split_loop(s, keys, i + 1, Append(buf, s[i]), chunks, tokens)
    ELSE LET j == DigitsEnd(s, i + 1)
         IN IF j > Len(s) \/ s[j] # "}"
            THEN split_loop(s, keys, i + 1, Append(buf, s[i]), chunks, tokens)
            ELSE LET key == SubSeq(s, i + 1, j - 1)
                     fl == flush_buf(FALSE, buf, chunks)
                 IN IF key \in keys
                    THEN split_loop(s, keys, j + 1, fl.buf, fl.chunks,
                                    Append(tokens, <<"{">> \o key \o <<"}">>))
                    ELSE split_loop(s, keys, i + 1, Append(buf, s[i]), chunks, tokens)

\* split_by_known_tokens without the test `key in known`.
split_by_any_token(s, keys) ==
    LET every == {SubSeq(s, a, b) : a, b \in DOMAIN s}
        loc == split_loop(s, every, 1, <<>>, <<>>, <<>>)
        chunks == flush_buf(TRUE, loc.buf, loc.chunks).chunks
    IN [raised |-> Len(chunks) # Len(loc.tokens) + 1,
        text_chunks |-> chunks, tokens |-> loc.tokens]

\* split_by_known_tokens: raised is TRUE when the function leaves through
\* `raise ValueError("Split invariant violated")`; text_chunks and tokens
\* then hold the locals at the raise.
split_by_known_tokens(s, keys) ==
    LET loc == split_loop(s, keys, 1, <<>>, <<>>, <<>>)
        chunks == flush_buf(TRUE, loc.buf, loc.chunks).chunks
    IN [raised |-> Len(chunks) # Len(loc.tokens) + 1,
        text_chunks |-> chunks, tokens |-> loc.tokens]

RECURSIVE reassemble_loop(_, _, _)
reassemble_loop(chunks, tokens, i) ==
    IF i > Len(chunks) THEN <<>>
    ELSE chunks[i] \o (IF i <= Len(tokens) THEN tokens[i] ELSE <<>>)
            \o reassemble_loop(chunks, tokens, i + 1)

\* reassemble_from_chunks: the joined text, or the ValueError it raises.
reassemble_from_chunks(chunks, tokens) ==
    IF Len(chunks) # Len(tokens) + 1
    THEN [raised |-> TRUE, value |-> <<>>]
    ELSE [raised |-> FALSE, value |-> reassemble_loop(chunks, tokens, 1)]

\* The while loop of strip_known_tokens, from index i with the local out.
RECURSIVE strip_loop(_, _, _, _)
strip_loop(s, keys, i, out) ==
    IF i > Len(s) THEN out
    ELSE IF s[i] # "{" THEN strip_loop(s, keys, i + 1, Append(out, s[i]))
    ELSE LET j == DigitsEnd(s, i + 1)
         IN IF /\ i + 1 <= Len(s) /\ IsDigit(s[i + 1])
               /\ j <= Len(s) /\ s[j] = "}"
               /\ SubSeq(s, i + 1, j - 1) \in keys
            THEN strip_loop(s, keys, j + 1, out)
            ELSE strip_loop(s, keys, i + 1, Append(out, s[i]))

strip_known_tokens(s, keys) ==
    IF keys = {} THEN s ELSE strip_loop(s, keys, 1, <<>>)

(***************************************************************************)
(* Markup.  Inside a raw fragment a tag (an opening tag with its           *)
(* attributes, a closing tag, an empty-element tag, a comment) is one      *)
(* element of the sequence, written as its serialization; TagTable is the  *)
(* lexer: it gives the kind, the name and the attributes of every tag the  *)
(* model uses.  Everything that is not in TagTable is a text character.    *)
(***************************************************************************)
TagInfo(kind, name, attrs) == [kind |-> kind, name |-> name, attrs |-> attrs]

TagTable ==
       ("<bpt id=\"1\">"          :> TagInfo("open", "bpt", << <<"id", "1">> >>))
    @@ ("<bpt id=\"1\" xid=\"9\">" :> TagInfo("open", "bpt", << <<"id", "1">>, <<"xid", "9">> >>))
    @@ ("</bpt>"                  :> TagInfo("close", "bpt", <<>>))
    @@ ("<ept id=\"1\">"          :> TagInfo("open", "ept", << <<"id", "1">> >>))
    @@ ("</ept>"                  :> TagInfo("close", "ept", <<>>))
    @@ ("<ph id=\"1\"/>"          :> TagInfo("empty", "ph", << <<"id", "1">> >>))
    @@ ("<ph xmlns=\"u\" id=\"1\"/>" :> TagInfo("empty", "ph", << <<"xmlns", "u">>, <<"id", "1">> >>))
    @@ ("<g id=\"2\">"            :> TagInfo("open", "g", << <<"id", "2">> >>))
    @@ ("<g id=\"2\"/>"           :> TagInfo("empty", "g", << <<"id", "2">> >>))
    @@ ("</g>"                    :> TagInfo("close", "g", <<>>))
    @@ ("<b>"                     :> TagInfo("open", "b", <<>>))
    @@ ("<b/>"                    :> TagInfo("empty", "b", <<>>))
    @@ ("<b xmlns=\"u\">"         :> TagInfo("open", "b", << <<"xmlns", "u">> >>))
    @@ ("<b xmlns=\"u\"/>"        :> TagInfo("empty", "b", << <<"xmlns", "u">> >>))
    @@ ("</b>"                    :> TagInfo("close", "b", <<>>))
    @@ ("<xref/>"                 :> TagInfo("empty", "xref", <<>>))
    @@ ("<!--c-->"                :> TagInfo("comment", "", <<>>))

\* The empty-element form of the opening tags of the model.
EmptyForm ==
       ("<g id=\"2\">" :> "<g id=\"2\"/>")
    @@ ("<b>" :> "<b/>")
    @@ ("<b xmlns=\"u\">" :> "<b xmlns=\"u\"/>")
    @@ ("<bpt id=\"1\">" :> "<bpt id=\"1\"/>")
    @@ ("<bpt id=\"1\" xid=\"9\">" :> "<bpt id=\"1\" xid=\"9\"/>")
    @@ ("<ept id=\"1\">" :> "<ept id=\"1\"/>")

\* The tags of the model that declare a namespace, without the declaration.
XmlnsStripped ==
       ("<ph xmlns=\"u\" id=\"1\"/>" :> "<ph id=\"1\"/>")
    @@ ("<b xmlns=\"u\">" :> "<b>")
    @@ ("<b xmlns=\"u\"/>" :> "<b/>")

IsTag(c) == c \in DOMAIN TagTable

\* The dict tags_map: a sequence of <<key, fragment>> in insertion order.
dict_keys(d) == [i \in DOMAIN d |-> d[i][1]]
dict_has(d, k) == \E i \in DOMAIN d : d[i][1] = k
dict_get(d, k) == d[CHOOSE i \in DOMAIN d : d[i][1] = k][2]

(***************************************************************************)
(* TokenGuard.validate (core/token_guard.py).                              *)
(***************************************************************************)
extract_tokens(s) == FindTokensFrom(s, 1)

\* for token, count in src_counts.items():
\*     if tgt_counts[token] < count: missing.extend(...)
RECURSIVE guard_missing_loop(_, _, _)
guard_missing_loop(src_counts, tgt_counts, i) ==
    IF i > Len(src_counts.keys) THEN <<>>
    ELSE LET token == src_counts.keys[i]
             count == src_counts.cnt[token]
         IN (IF CounterGet(tgt_counts, token) < count
             THEN Repeat(token, count - CounterGet(tgt_counts, token))
             ELSE <<>>) \o guard_missing_loop(src_counts, tgt_counts, i + 1)

\* for token, count in tgt_counts.items():
\*     if tgt_counts[token] > src_counts[token]: extra.extend(...)
RECURSIVE guard_extra_loop(_, _, _)
guard_extra_loop(src_counts, tgt_counts, i) ==
    IF i > Len(tgt_counts.keys) THEN <<>>
    ELSE LET token == tgt_counts.keys[i]
         IN (IF CounterGet(tgt_counts, token) > CounterGet(src_counts, token)
             THEN Repeat(token, CounterGet(tgt_counts, token) - CounterGet(src_counts, token))
             ELSE <<>>) \o guard_extra_loop(src_counts, tgt_counts, i + 1)

\* One occurrence per over-represented token: extra.append(token).
guard_extra_once(src_counts, tgt_counts) ==
    SelectSeq(tgt_counts.keys,
              LAMBDA t : CounterGet(tgt_counts, t) > CounterGet(src_counts, t))

guard_missing(src_counts, tgt_counts) == guard_missing_loop(src_counts, tgt_counts, 1)

guard_extra(src_counts, tgt_counts) == guard_extra_loop(src_counts, tgt_counts, 1)

\* The attribute part of <name[^>]*id=["']([^"']+)["'] inside one tag:
\* [^>]* is greedy, so the match ends at the LAST attribute of the tag
\* whose serialized name ends in "id" and whose value is not empty.
\* Yields the index of that attribute, 0 when the tag has none.
EndsInId(attr_name) == attr_name \in {"id", "rid", "xid", "mid"}

RECURSIVE last_id_attr(_, _)
last_id_attr(attrs, i) ==
    IF i = 0 THEN 0
    ELSE IF EndsInId(attrs[i][1]) /\ attrs[i][2] # "" THEN i
    ELSE last_id_attr(attrs, i - 1)

\* re.search(r'<NAME[^>]*id=["\']([^"\']+)["\']', tag_content): the
\* leftmost tag of the fragment called NAME that carries such an
\* attribute; yields <<group(1)>>, or <<>> for no match.
RECURSIVE id_search(_, _, _)
id_search(name, tag_content, i) ==
    IF i > Len(tag_content) THEN <<>>
    ELSE LET c == tag_content[i]
         IN IF IsTag(c) /\ TagTable[c].kind \in {"open", "empty"}
                 /\ TagTable[c].name = name
                 /\ last_id_attr(TagTable[c].attrs, Len(TagTable[c].attrs)) # 0
            THEN <<TagTable[c].attrs[last_id_attr(TagTable[c].attrs,
                                                   Len(TagTable[c].attrs))][2]>>
            ELSE id_search(name, tag_content, i + 1)

\* pairs_map[rid][kind] = token (pairs_map is an insertion-ordered dict of
\* rid to {"bpt": token, "ept": token}; an absent entry is <<>>).
pairs_set(pairs_map, rid, kind, token) ==
    IF \E i \in DOMAIN pairs_map : pairs_map[i].rid = rid
    THEN [i \in DOMAIN pairs_map |->
             IF pairs_map[i].rid = rid THEN [pairs_map[i] EXCEPT ![kind] = token]
             ELSE pairs_map[i]]
    ELSE Append(pairs_map, [[rid |-> rid, bpt |-> <<>>, ept |-> <<>>] EXCEPT ![kind] = token])

\* for placeholder_id, tag_content in tags_map.items(): ...
RECURSIVE build_pairs_map(_, _, _)
build_pairs_map(d, i, pairs_map) ==
    IF i > Len(d) THEN pairs_map
    ELSE LET token == <<"{">> \o d[i][1] \o <<"}">>
             bpt_match == id_search("bpt", d[i][2], 1)
             ept_match == id_search("ept", d[i][2], 1)
         IN IF bpt_match # <<>>
            THEN build_pairs_map(d, i + 1, pairs_set(pairs_map, bpt_match[1], "bpt", token))
            ELSE IF ept_match # <<>>
            THEN build_pairs_map(d, i + 1, pairs_set(pairs_map, ept_match[1], "ept", token))
            ELSE build_pairs_map(d, i + 1, pairs_map)

\* list.index(x): position of the first occurrence (x is in the list).
list_index(seq, x) == CHOOSE i \in DOMAIN seq :
                          seq[i] = x /\ \A k \in 1..(i - 1) : seq[k] # x

\* for rid, tokens in pairs_map.items(): ... pairing_errors.append(...)
RECURSIVE check_pairs(_, _, _)
check_pairs(pairs_map, target_tokens, i) ==
    IF i > Len(pairs_map) THEN <<>>
    ELSE LET bpt == pairs_map[i].bpt
             ept == pairs_map[i].ept
         IN (IF bpt # <<>> /\ ept # <<>>
                  /\ bpt \in Range(target_tokens) /\ ept \in Range(target_tokens)
                  /\ list_index(target_tokens, bpt) > list_index(target_tokens, ept)
             THEN << <<"Broken Pair", bpt, ept>> >>
             ELSE <<>>) \o check_pairs(pairs_map, target_tokens, i + 1)

\* validate that also rejects a target with a malformed brace, as
\* QAChecker does.
validate_braces_checked(source, target, d) ==
    LET source_tokens == extract_tokens(source)
        target_tokens == extract_tokens(target)
        missing == guard_missing(Counter(source_tokens), Counter(target_tokens))
        extra == guard_extra(Counter(source_tokens), Counter(target_tokens))
        pairing_errors == check_pairs(build_pairs_map(d, 1, <<>>), target_tokens, 1)
    IN [valid |-> ~ (missing # <<>> \/ extra # <<>> \/ pairing_errors # <<>>
                        \/ invalid_token_findall(target) # <<>>),
        missing |-> missing, extra |-> extra, order_errors |-> <<>>,
        pairing_errors |-> pairing_errors]

validate(source, target, d) ==
    LET source_tokens == extract_tokens(source)
        target_tokens == extract_tokens(target)
        missing == guard_missing(Counter(source_tokens), Counter(target_tokens))
        extra == guard_extra(Counter(source_tokens), Counter(target_tokens))
        pairing_errors == check_pairs(build_pairs_map(d, 1, <<>>), target_tokens, 1)
    IN [valid |-> ~ (missing # <<>> \/ extra # <<>> \/ pairing_errors # <<>>),
        missing |-> missing, extra |-> extra, order_errors |-> <<>>,
        pairing_errors |-> pairing_errors]

\* str(n) for a positive int n.
RECURSIVE str(_)
str(n) == LET d == <<"0", "1", "2", "3", "4", "5", "6", "7", "8", "9">>
          IN IF n < 10 THEN <<d[n + 1]>> ELSE str(n \div 10) \o <<d[(n % 10) + 1]>>

(***************************************************************************)
(* TagAbstractor (core/abstractor.py).                                     *)
(***************************************************************************)
INLINE_TAG_LOCALNAMES == {"bpt", "ept", "ph", "it", "mrk", "g", "x", "bx", "ex"}

Kind(c) == IF IsTag(c) THEN TagTable[c].kind ELSE "chr"

\* etree.fromstring("<dummy>" + raw + "</dummy>") with recover=False
\* succeeds: every closing tag closes the innermost open element.
RECURSIVE parses(_, _, _)
parses(raw, i, open_names) ==
    IF i > Len(raw) THEN open_names = <<>>
    ELSE IF Kind(raw[i]) = "open"
         THEN parses(raw, i + 1, <<TagTable[raw[i]].name>> \o open_names)
    ELSE IF Kind(raw[i]) = "close"
         THEN /\ open_names # <<>>
              /\ Head(open_names) = TagTable[raw[i]].name
              /\ parses(raw, i + 1, Tail(open_names))
    ELSE parses(raw, i + 1, open_names)

\* Index of the tag that ends the node starting at i (well-formed input).
RECURSIVE node_end(_, _, _)
node_end(raw, i, depth) ==
    IF Kind(raw[i]) = "open" THEN node_end(raw, i + 1, depth + 1)
    ELSE IF Kind(raw[i]) = "close"
         THEN IF depth = 1 THEN i ELSE node_end(raw, i + 1, depth - 1)
    ELSE IF depth = 0 THEN i ELSE node_end(raw, i + 1, depth)

\* etree.tostring(node, encoding="unicode"): the parsed markup written
\* back; an element without content is written as an empty-element tag.
RECURSIVE tostring(_)
tostring(node) ==
    IF node = <<>> THEN <<>>
    ELSE IF Len(node) >= 2 /\ Kind(node[1]) = "open" /\ Kind(node[2]) = "close"
         THEN <<EmptyForm[node[1]]>> \o tostring(SubSeq(node, 3, Len(node)))
    ELSE <<node[1]>> \o tostring(Tail(node))

\* re.sub(r'\s+xmlns(:\w+)?="[^"]+"', '', s)
strip_xmlns(s) ==
    [i \in DOMAIN s |-> IF s[i] \in DOMAIN XmlnsStripped THEN XmlnsStripped[s[i]] ELSE s[i]]

placeholder(counter) == <<"{">> \o str(counter) \o <<"}">>

AbstractionResult(abstracted_text, d) == [abstracted_text |-> abstracted_text, tags_map |-> d]

\* The loop over the children of dummy_root.  Text between the children
\* (dummy_root.text and every node.tail) is appended as it stands.
RECURSIVE abstract_walk(_, _, _, _, _)
abstract_walk(raw, i, counter, out, d) ==
    IF i > Len(raw) THEN AbstractionResult(out, d)
    ELSE IF Kind(raw[i]) = "chr"
         THEN abstract_walk(raw, i + 1, counter, Append(out, raw[i]), d)
    ELSE LET j == node_end(raw, i, 0)
             node == SubSeq(raw, i, j)
         IN IF Kind(raw[i]) # "comment" /\ TagTable[raw[i]].name \in INLINE_TAG_LOCALNAMES
            THEN abstract_walk(raw, j + 1, counter + 1, out \o placeholder(counter),
                               Append(d, <<str(counter), strip_xmlns(tostring(node))>>))
            ELSE abstract_walk(raw, j + 1, counter, out \o strip_xmlns(tostring(node)), d)

\* The characters of the tag names of the model and of the catalog.
NameChars ==
       ("bpt" :> <<"b", "p", "t">>) @@ ("ept" :> <<"e", "p", "t">>)
    @@ ("ph" :> <<"p", "h">>) @@ ("it" :> <<"i", "t">>)
    @@ ("mrk" :> <<"m", "r", "k">>) @@ ("g" :> <<"g">>) @@ ("x" :> <<"x">>)
    @@ ("bx" :> <<"b", "x">>) @@ ("ex" :> <<"e", "x">>)
    @@ ("b" :> <<"b">>) @@ ("xref" :> <<"x", "r", "e", "f">>)

startswith(s, prefix) ==
    Len(prefix) <= Len(s) /\ SubSeq(s, 1, Len(prefix)) = prefix

\* INLINE_TAG_REGEX begins a match at this tag: "<", a catalog name and
\* [^>]*? up to the ">" that ends the tag.  Nothing in the pattern ends the
\* name, so a catalog name need only be a prefix of the tag name.
regex_opens(c) ==
    /\ Kind(c) \in {"open", "empty"}
    /\ \E name \in INLINE_TAG_LOCALNAMES :
          startswith(NameChars[TagTable[c].name], NameChars[name])

\* First index >= j of a closing tag with a catalog name, 0 if none.
RECURSIVE first_catalog_close(_, _)
first_catalog_close(raw, j) ==
    IF j > Len(raw) THEN 0
    ELSE IF Kind(raw[j]) = "close" /\ TagTable[raw[j]].name \in INLINE_TAG_LOCALNAMES THEN j
    ELSE first_catalog_close(raw, j + 1)

\* TAG_PATTERN.sub(replace_match, raw_xml): the first alternative
\* (<tag ...> .*? </tag>) is tried before the second (<tag ... />).
RECURSIVE regex_sub(_, _, _, _, _)
regex_sub(raw, i, counter, out, d) ==
    IF i > Len(raw) THEN AbstractionResult(out, d)
    ELSE LET j == IF ~ regex_opens(raw[i]) THEN 0
                  ELSE IF first_catalog_close(raw, i + 1) # 0
                       THEN first_catalog_close(raw, i + 1)
                  ELSE IF Kind(raw[i]) = "empty" THEN i
                  ELSE 0
         IN IF j = 0
            THEN regex_sub(raw, i + 1, counter, Append(out, raw[i]), d)
            ELSE regex_sub(raw, j + 1, counter + 1, out \o placeholder(counter),
                           Append(d, <<str(counter), SubSeq(raw, i, j)>>))

\* abstract with the except branch alone.
abstract_by_regex(raw) ==
    IF raw = <<>> THEN AbstractionResult(<<>>, <<>>)
    ELSE regex_sub(raw, 1, 1, <<>>, <<>>)

abstract(raw) ==
    IF raw = <<>> THEN AbstractionResult(<<>>, <<>>)
    ELSE IF parses(raw, 1, <<>>) THEN abstract_walk(raw, 1, 1, <<>>, <<>>)
    ELSE regex_sub(raw, 1, 1, <<>>, <<>>)

\* re.sub(r'\{(\d+)\}', replace_back, abstracted_text)
RECURSIVE reconstruct_from(_, _, _)
reconstruct_from(s, d, i) ==
    IF i > Len(s) THEN <<>>
    ELSE IF TokenEnd(s, i) # 0
         THEN LET key == SubSeq(s, i + 1, TokenEnd(s, i) - 1)
              IN (IF dict_has(d, key) THEN dict_get(d, key)
                  ELSE SubSeq(s, i, TokenEnd(s, i)))
                 \o reconstruct_from(s, d, TokenEnd(s, i) + 1)
         ELSE <<s[i]>> \o reconstruct_from(s, d, i + 1)

\* s.replace(old, new) of str.
RECURSIVE str_replace(_, _, _)
str_replace(s, old, new) ==
    IF s = <<>> THEN <<>>
    ELSE IF Len(old) <= Len(s) /\ SubSeq(s, 1, Len(old)) = old
         THEN new \o str_replace(SubSeq(s, Len(old) + 1, Len(s)), old, new)
    ELSE <<s[1]>> \o str_replace(Tail(s), old, new)

\* reconstruct as a loop of str.replace over tags_map.items().
RECURSIVE reconstruct_by_replace(_, _)
reconstruct_by_replace(abstracted_text, d) ==
    IF d = <<>> THEN abstracted_text
    ELSE reconstruct_by_replace(
             str_replace(abstracted_text, <<"{">> \o d[1][1] \o <<"}">>, d[1][2]),
             Tail(d))

\* reconstruct that scans its own result once more.
reconstruct_rescanned(abstracted_text, d) ==
    reconstruct_from(reconstruct_from(abstracted_text, d, 1), d, 1)

reconstruct(abstracted_text, d) == reconstruct_from(abstracted_text, d, 1)

(***************************************************************************)
(* Inputs of the QA checks.                                                *)
(***************************************************************************)
\* Source segments as the abstractor emits them: plain text and tokens.
SrcPieces == {<<"a">>, <<"{", "1", "}">>, <<"{", "2", "}">>}

\* Target texts as a translator or a model may type them.
TgtPieces == {<<"a">>, <<"{">>, <<"1">>, <<"}">>, <<"{", "1", "}">>, <<"{", "2", "}">>}

UnitStates == {"new", "needs_translation", "translated", "edited"}

NoResult == [status |-> "none", issues |-> <<>>, tag_stats |-> <<>>, qa_details |-> <<>>]

NoSplit == [raised |-> FALSE, text_chunks |-> <<>>, tokens |-> <<>>]
NoValue == [raised |-> FALSE, value |-> <<>>]

QAIdle == source_text = <<>> /\ target_text = <<>> /\ unit_state = "new"
             /\ qa_result = NoResult
NoValidation == [valid |-> FALSE, missing |-> <<>>, extra |-> <<>>,
                 order_errors |-> <<>>, pairing_errors |-> <<>>]
GuardIdle == tags_map = <<>> /\ guard_result = NoValidation
NoAbstraction == [abstracted_text |-> <<>>, tags_map |-> <<>>]
SvcIdle == qa_counts = <<0, 0>>
NoWorkbench == [pending_source |-> <<>>, pending_unit_id |-> "unset",
                pending_unit_ids |-> <<>>, pending_new_text |-> <<>>,
                apply_btn |-> FALSE]
WbIdle == workbench = NoWorkbench /\ active_unit_index_map = -1
             /\ selection = {} /\ wb_worker = "idle"
NoWorker == [phase |-> "none", i |-> 0, total |-> 0, is_running |-> FALSE]
RunIdle == btn_trans = TRUE /\ trans_worker = NoWorker /\ client_calls = <<>>
              /\ signals = <<>>
\* A path is missing, or holds a file: empty, partly or completely written
\* with the content of the n-th save.
Missing == <<"none", 0>>
NoDisk == [autosave_path |-> Missing, target_path |-> Missing,
           temp_name |-> Missing]
NoSave == [routine |-> "none", step |-> "idle", old |-> Missing, new |-> 0]
NoXliff == [source_raw |-> <<>>, target_raw |-> <<>>, opened_target |-> <<>>]
FsIdle == disk = NoDisk /\ save_op = NoSave /\ xliff_file = NoXliff
AppIdle == units = <<>> /\ autosave_file = <<>> /\ is_dirty = FALSE
AbsIdle == raw_xml = <<>> /\ abs_result = NoAbstraction /\ recon = <<>>
SplitIdle == text = <<>> /\ known = {} /\ split_result = NoSplit
                /\ reassembled = NoValue /\ stripped = <<>>

InitQA ==
    /\ pc = "input"
    /\ SplitIdle
    /\ GuardIdle
    /\ AbsIdle
    /\ AppIdle
    /\ SvcIdle
    /\ WbIdle
    /\ RunIdle
    /\ FsIdle
    /\ \/ /\ source_text \in Texts(SrcPieces, MaxSrcLen)
          /\ target_text \in Texts(TgtPieces, MaxTgtLen)
       \/ /\ source_text \in Texts(TgtPieces, MaxTgtLen)
          /\ target_text = source_text
    /\ unit_state = "new"
    /\ qa_result = NoResult

CheckUnit ==
    /\ pc = "input"
    /\ \E st \in UnitStates :
          /\ unit_state' = st
          /\ qa_result' = check_unit(source_text, target_text, st)
    /\ pc' = "checked"
    /\ UNCHANGED <<source_text, target_text, split_vars, guard_vars, abs_vars, app_vars, svc_vars, wb_vars,
                 run_vars, fs_vars>>

NextQA == CheckUnit

SpecQA == InitQA /\ [][NextQA]_vars

(***************************************************************************)
(* TokenGuard: source and target texts, then validate under a tags_map     *)
(* whose keys are "1", "2", ... as the abstractor numbers them.            *)
(***************************************************************************)
GuardPieces == {<<"a">>, <<"{", "1", "}">>, <<"{", "2", "}">>}

Fragments == {
    <<"<bpt id=\"1\">", "a", "</bpt>">>,
    <<"<bpt id=\"1\" xid=\"9\">", "a", "</bpt>">>,
    <<"<ept id=\"1\">", "a", "</ept>">>,
    <<"<ph id=\"1\"/>">> }

TagsMaps == {[i \in DOMAIN fs |-> <<str(i), fs[i]>>] : fs \in PieceSeqs(Fragments, MaxTags)}

InitGuard ==
    /\ pc = "input"
    /\ SplitIdle
    /\ source_text \in Texts(GuardPieces, MaxSrcLen)
    /\ target_text \in Texts(GuardPieces, MaxTgtLen)
    /\ unit_state = "new"
    /\ qa_result = NoResult
    /\ GuardIdle
    /\ AbsIdle
    /\ AppIdle
    /\ SvcIdle
    /\ WbIdle
    /\ RunIdle
    /\ FsIdle

Validate ==
    /\ pc = "input"
    /\ \E d \in TagsMaps :
          /\ tags_map' = d
          /\ guard_result' = validate(source_text, target_text, d)
    /\ pc' = "validated"
    /\ UNCHANGED <<qa_vars, split_vars, abs_vars, app_vars, svc_vars, wb_vars,
                 run_vars, fs_vars>>

NextGuard == Validate

SpecGuard == InitGuard /\ [][NextGuard]_vars

\* validate on targets with malformed braces: sources with no, one and two
\* tokens; targets made of a lone brace, an unterminated token and tokens.
BraceSources == {<<>>, <<"{", "1", "}">>, <<"{", "1", "}", "{", "2", "}">>}

BracePieces == {<<"{">>, <<"{", "1">>, <<"{", "1", "}">>, <<"{", "2", "}">>}

InitBraces ==
    /\ pc = "input"
    /\ SplitIdle
    /\ source_text \in BraceSources
    /\ target_text \in Texts(BracePieces, MaxTgtLen)
    /\ unit_state = "new"
    /\ qa_result = NoResult
    /\ GuardIdle
    /\ AbsIdle
    /\ AppIdle
    /\ SvcIdle
    /\ WbIdle
    /\ RunIdle
    /\ FsIdle

SpecBraces == InitBraces /\ [][NextGuard]_vars

(***************************************************************************)
(* Abstraction: a raw fragment, then abstract and reconstruct.             *)
(***************************************************************************)
RawPieces == {<<"a">>, <<"{">>, <<"1">>, <<"}">>,
              <<"<ph id=\"1\"/>">>, <<"<ph xmlns=\"u\" id=\"1\"/>">>,
              <<"<g id=\"2\">">>, <<"</g>">>,
              <<"<b>">>, <<"</b>">>, <<"<!--c-->">>}

InitAbs ==
    /\ pc = "input"
    /\ QAIdle
    /\ GuardIdle
    /\ SplitIdle
    /\ AppIdle
    /\ SvcIdle
    /\ WbIdle
    /\ RunIdle
    /\ FsIdle
    /\ raw_xml \in Texts(RawPieces, MaxRawLen)
    /\ abs_result = NoAbstraction
    /\ recon = <<>>

Abstract ==
    /\ pc = "input"
    /\ abs_result' = abstract(raw_xml)
    /\ pc' = "abstracted"
    /\ UNCHANGED <<raw_xml, recon, qa_vars, guard_vars, split_vars, app_vars, svc_vars, wb_vars,
                 run_vars, fs_vars>>

Reconstruct ==
    /\ pc = "abstracted"
    /\ recon' = reconstruct(abs_result.abstracted_text, abs_result.tags_map)
    /\ pc' = "reconstructed"
    /\ UNCHANGED <<raw_xml, abs_result, qa_vars, guard_vars, split_vars, app_vars, svc_vars, wb_vars,
                 run_vars, fs_vars>>

NextAbs == Abstract \/ Reconstruct

SpecAbs == InitAbs /\ [][NextAbs]_vars

\* reconstruct on any text and any tags_map: the caller passes a text that
\* a translator or a model wrote and a dict from digit strings to markup,
\* which may itself hold brace-digit text.
ReconValues == {<<"<ph id=\"1\"/>">>, <<"{", "2", "}">>}

ReconMaps ==
    {<<>>} \cup { << <<k, v>> >> : k \in {<<"1">>, <<"2">>}, v \in ReconValues }
           \cup { << <<<<"1">>, v>>, <<<<"2">>, w>> >> : v, w \in ReconValues }

InitRecon ==
    /\ pc = "abstracted"
    /\ QAIdle
    /\ GuardIdle
    /\ SplitIdle
    /\ AppIdle
    /\ SvcIdle
    /\ WbIdle
    /\ RunIdle
    /\ FsIdle
    /\ raw_xml = <<>>
    /\ \E t \in Texts(TgtPieces, MaxTgtLen), d \in ReconMaps :
          abs_result = AbstractionResult(t, d)
    /\ recon = <<>>

NextRecon == Reconstruct

SpecRecon == InitRecon /\ [][NextRecon]_vars

\* Fragments for the numbering and the nesting of the tokens: text, a
\* literal "{1}", a catalog empty element, a catalog element and a
\* non-catalog element that can hold content, and a comment.
NumberingPieces == {<<"a">>, <<"{", "1", "}">>, <<"<ph id=\"1\"/>">>,
                    <<"<g id=\"2\">">>, <<"</g>">>,
                    <<"<b>">>, <<"<b xmlns=\"u\">">>, <<"</b>">>, <<"<!--c-->">>}

InitNumbering ==
    /\ pc = "input"
    /\ QAIdle
    /\ GuardIdle
    /\ SplitIdle
    /\ AppIdle
    /\ SvcIdle
    /\ WbIdle
    /\ RunIdle
    /\ FsIdle
    /\ raw_xml \in Texts(NumberingPieces, MaxRawLen)
    /\ abs_result = NoAbstraction
    /\ recon = <<>>

SpecNumbering == InitNumbering /\ [][NextAbs]_vars

\* Markup that sends abstract to its except branch: a stray or a foreign
\* closing tag, an element that is never closed, and an element whose name
\* begins with the catalog name x.
RegexPieces == {<<"a">>, <<"<ph id=\"1\"/>">>, <<"<g id=\"2\">">>, <<"</g>">>,
                <<"</bpt>">>, <<"<b>">>, <<"<xref/>">>}

InitRegex ==
    /\ pc = "input"
    /\ QAIdle
    /\ GuardIdle
    /\ SplitIdle
    /\ AppIdle
    /\ SvcIdle
    /\ WbIdle
    /\ RunIdle
    /\ FsIdle
    /\ raw_xml \in Texts(RegexPieces, MaxRawLen)
    /\ abs_result = NoAbstraction
    /\ recon = <<>>

SpecRegex == InitRegex /\ [][NextAbs]_vars

(***************************************************************************)
(* Split and reassemble: texts and key sets, then the two calls.           *)
(***************************************************************************)
TextPieces == {<<"a">>, <<"{">>, <<"1">>, <<"}">>, <<"{", "1", "}">>, <<"{", "2", "}">>}

KnownKeys == {<<"1">>, <<"2">>}

InitSplit ==
    /\ pc = "input"
    /\ QAIdle
    /\ GuardIdle
    /\ AbsIdle
    /\ AppIdle
    /\ SvcIdle
    /\ WbIdle
    /\ RunIdle
    /\ FsIdle
    /\ text \in Texts(TextPieces, MaxTextLen)
    /\ known \in SUBSET KnownKeys
    /\ split_result = NoSplit
    /\ reassembled = NoValue
    /\ stripped = <<>>

Split ==
    /\ pc = "input"
    /\ split_result' = split_by_known_tokens(text, known)
    /\ pc' = "split"
    /\ UNCHANGED <<text, known, reassembled, stripped, qa_vars, guard_vars, abs_vars, app_vars, svc_vars, wb_vars,
                 run_vars, fs_vars>>

\* The caller passes on what split returned; nothing is returned after a raise.
Reassemble ==
    /\ pc = "split"
    /\ ~ split_result.raised
    /\ reassembled' = reassemble_from_chunks(split_result.text_chunks, split_result.tokens)
    /\ pc' = "reassembled"
    /\ UNCHANGED <<text, known, split_result, stripped, qa_vars, guard_vars, abs_vars, app_vars, svc_vars, wb_vars,
                 run_vars, fs_vars>>

\* strip_known_tokens is called on the arguments given to the split.
Strip ==
    /\ pc = "split"
    /\ stripped' = strip_known_tokens(text, known)
    /\ pc' = "stripped"
    /\ UNCHANGED <<text, known, split_result, reassembled, qa_vars, guard_vars, abs_vars, app_vars, svc_vars, wb_vars,
                 run_vars, fs_vars>>

NextSplit == Split \/ Reassemble \/ Strip

SpecSplit == InitSplit /\ [][NextSplit]_vars

(***************************************************************************)
(* MainWindow (desktop_app.py): the units of the open file, the autosave   *)
(* patch beside it, and the main-thread handlers that read or write them.  *)
(* Results of the translation and repair workers and of the workbench      *)
(* reach the main thread as signals; their payload comes from the AI       *)
(* client and is drawn from AppTexts.  A unit holds the fields that the    *)
(* handlers read and write after the load; the file that a save writes is  *)
(* not part of the state.                                                  *)
(***************************************************************************)
\* The <source> markup of the units of the open file, in file order: one
\* unit with an inline tag and one without.
SourceDocument == << <<"<ph id=\"1\"/>">>, <<"a">> >>

Units == DOMAIN SourceDocument

other_vars == <<pc, qa_vars, split_vars, guard_vars, abs_vars, svc_vars, wb_vars,
                run_vars, fs_vars>>

source_raw_of(u) == SourceDocument[u]

\* <target> of unit u in the open file: absent, or a copy of the source.
FileTargets(u) ==
    {[target_raw |-> <<>>, state |-> "new"],
     [target_raw |-> source_raw_of(u), state |-> "translated"]}

\* Texts typed by the user or returned by the AI client.
AppTexts == {<<>>, <<"a">>, <<"{", "1", "}">>}

\* No entry for a unit in a result map or in a patch.
Absent == <<"absent">>

\* TranslationUnit(source_raw, target_raw, state) with the defaults of
\* the dataclass, after the body of the loop that fills self.units.
load_unit(source_raw, target_raw, state) ==
    LET res == abstract(source_raw)
    IN [source_abstracted |-> res.abstracted_text,
        target_abstracted |-> IF target_raw # <<>>
                              THEN abstract(target_raw).abstracted_text ELSE <<>>,
        tags_map |-> res.tags_map, state |-> state, errors |-> <<>>,
        tag_stats |-> <<>>, qa_status |-> "ok", qa_details |-> <<>>]

NoPatch == [u \in Units |-> [target |-> Absent, state |-> ""]]
NoFile == [exists |-> FALSE, units |-> NoPatch]

\* Autosaver.save_patch: the autosave file after the call.
save_patch(file, current_units) ==
    LET patch_data ==
            [u \in Units |->
                IF current_units[u].target_abstracted # <<>>
                THEN [target |-> current_units[u].target_abstracted,
                      state |-> current_units[u].state]
                ELSE NoPatch[u]]
    IN IF \A u \in Units : current_units[u].target_abstracted = <<>> THEN file
       ELSE [exists |-> TRUE, units |-> patch_data]

apply_recovery(us, data) ==
    [u \in Units |->
        IF data.units[u].target # Absent
        THEN [us[u] EXCEPT !.target_abstracted = data.units[u].target,
                           !.state = data.units[u].state]
        ELSE us[u]]

\* The loop body without the test for locked.
qa_unit_no_skip(unit) ==
    LET result == check_unit(unit.source_abstracted, unit.target_abstracted,
                             unit.state)
    IN [unit EXCEPT !.qa_status = result.status,
                    !.tag_stats = result.tag_stats,
                    !.qa_details = result.qa_details,
                    !.errors = result.issues]

\* The body of the loop of MainWindow.run_qa and of QAService.run_qa.
qa_unit(unit) ==
    IF unit.state = "locked" THEN unit
    ELSE LET result == check_unit(unit.source_abstracted, unit.target_abstracted,
                                  unit.state)
         IN [unit EXCEPT !.qa_status = result.status,
                         !.tag_stats = result.tag_stats,
                         !.qa_details = result.qa_details,
                         !.errors = result.issues]

run_qa(us) == [u \in DOMAIN us |-> qa_unit(us[u])]

\* The counters of the loop of QAService.run_qa, from unit i on.
RECURSIVE qa_count_loop(_, _, _, _)
qa_count_loop(us, i, error_count, warning_count) ==
    IF i > Len(us) THEN <<error_count, warning_count>>
    ELSE IF us[i].state = "locked"
         THEN qa_count_loop(us, i + 1, error_count, warning_count)
    ELSE LET result == check_unit(us[i].source_abstracted, us[i].target_abstracted,
                                  us[i].state)
         IN IF result.status = "error"
            THEN qa_count_loop(us, i + 1, error_count + 1, warning_count)
            ELSE IF result.status = "warning"
                 THEN qa_count_loop(us, i + 1, error_count, warning_count + 1)
            ELSE qa_count_loop(us, i + 1, error_count, warning_count)

InitApp ==
    /\ pc = "app"
    /\ QAIdle
    /\ SplitIdle
    /\ GuardIdle
    /\ AbsIdle
    /\ SvcIdle
    /\ WbIdle
    /\ RunIdle
    /\ FsIdle
    /\ \E ft \in [Units -> UNION {FileTargets(u) : u \in Units}] :
          /\ \A u \in Units : ft[u] \in FileTargets(u)
          /\ units = [u \in Units |->
                        load_unit(source_raw_of(u), ft[u].target_raw, ft[u].state)]
    /\ autosave_file = NoFile
    /\ is_dirty = FALSE

\* open_file: the units are read again from a file; a matching autosave
\* patch is applied (reply Yes) or removed (reply No).
OpenFile ==
    /\ \E ft \in [Units -> UNION {FileTargets(u) : u \in Units}], reply \in {"Yes", "No"} :
            /\ \A u \in Units : ft[u] \in FileTargets(u)
            /\ LET loaded == [u \in Units |->
                                load_unit(source_raw_of(u), ft[u].target_raw, ft[u].state)]
               IN IF autosave_file.exists
                  THEN IF reply = "Yes"
                       THEN /\ units' = apply_recovery(loaded, autosave_file)
                            /\ UNCHANGED autosave_file
                       ELSE /\ units' = loaded
                            /\ autosave_file' = NoFile
                  ELSE /\ units' = loaded
                       /\ UNCHANGED autosave_file
            /\ UNCHANGED is_dirty
    /\ UNCHANGED other_vars

\* XliffTableModel.setData on the target column; dataChanged is connected
\* to perform_autosave.
SetData ==
    /\ \E u \in Units, value \in AppTexts :
            /\ units[u].state # "locked"
            /\ units[u].target_abstracted # value
            /\ units' = [units EXCEPT ![u].target_abstracted = value, ![u].state = "edited"]
            /\ is_dirty' = TRUE
            /\ autosave_file' = save_patch(autosave_file, units')
    /\ UNCHANGED other_vars

OnBatchTranslationResult ==
    /\ \E res_map \in [Units -> AppTexts \cup {Absent}] :
            /\ \E u \in Units : res_map[u] # Absent
            /\ units' = [u \in Units |->
                            IF res_map[u] # Absent /\ units[u].target_abstracted # res_map[u]
                            THEN [units[u] EXCEPT !.target_abstracted = res_map[u],
                                                  !.state = "translated"]
                            ELSE units[u]]
            /\ IF units' # units
               THEN /\ is_dirty' = TRUE
                    /\ autosave_file' = save_patch(autosave_file, units')
               ELSE UNCHANGED <<is_dirty, autosave_file>>
    /\ UNCHANGED other_vars

\* segment_repaired is emitted by RepairWorker for a unit whose source
\* holds tokens, with state "edited".
OnSegmentRepaired ==
    /\ \E u \in Units, new_target \in AppTexts :
            /\ valid_token_findall(units[u].source_abstracted) # <<>>
            /\ units' = [units EXCEPT ![u].target_abstracted = new_target,
                                      ![u].state = "edited"]
            /\ UNCHANGED <<is_dirty, autosave_file>>
    /\ UNCHANGED other_vars

\* The single-segment branch of on_workbench_apply; refresh_row emits
\* dataChanged.
OnWorkbenchApply ==
    /\ \E u \in Units, new_text \in AppTexts :
            /\ validate(units[u].source_abstracted, new_text, units[u].tags_map).valid
            /\ units[u].target_abstracted # new_text
            /\ units' = [units EXCEPT ![u].target_abstracted = new_text,
                                      ![u].state = "edited"]
            /\ is_dirty' = TRUE
            /\ autosave_file' = save_patch(autosave_file, units')
    /\ UNCHANGED other_vars

\* show_context_menu, action_lock.
Lock ==
    /\ \E selected_units \in (SUBSET Units) \ {{}} :
            /\ units' = [u \in Units |->
                            IF u \in selected_units
                            THEN [units[u] EXCEPT !.state = "locked"] ELSE units[u]]
            /\ UNCHANGED <<is_dirty, autosave_file>>
    /\ UNCHANGED other_vars

\* show_context_menu, action_unlock.
Unlock ==
    /\ \E selected_units \in (SUBSET Units) \ {{}} :
            /\ units' = [u \in Units |->
                            IF u \in selected_units
                            THEN [units[u] EXCEPT !.state =
                                     IF units[u].target_abstracted # <<>>
                                     THEN "edited" ELSE "needs_translation"]
                            ELSE units[u]]
            /\ UNCHANGED <<is_dirty, autosave_file>>
    /\ UNCHANGED other_vars

\* show_context_menu, action_clear.
ClearTarget ==
    /\ \E selected_units \in (SUBSET Units) \ {{}} :
            /\ units' = [u \in Units |->
                            IF /\ u \in selected_units
                               /\ units[u].state # "locked"
                               /\ units[u].target_abstracted # <<>>
                            THEN [units[u] EXCEPT !.target_abstracted = <<>>,
                                                  !.state = "needs_translation"]
                            ELSE units[u]]
            /\ IF units' # units
               THEN /\ is_dirty' = TRUE
                    /\ autosave_file' = save_patch(autosave_file, units')
               ELSE UNCHANGED <<is_dirty, autosave_file>>
    /\ UNCHANGED other_vars

\* The QA button, and the run_qa that on_repair_finished schedules.
RunQA ==
    /\ units' = run_qa(units)
    /\ UNCHANGED <<is_dirty, autosave_file>>
    /\ UNCHANGED other_vars

\* save_file (Export): QA runs first; with no unit in error and a path
\* chosen, the file is written and the autosave file removed.
SaveFile ==
    /\ \E path_chosen \in BOOLEAN :
            /\ units' = run_qa(units)
            /\ IF (\E u \in Units : units'[u].qa_status = "error") \/ ~ path_chosen
               THEN UNCHANGED autosave_file
               ELSE autosave_file' = NoFile
            /\ UNCHANGED is_dirty
    /\ UNCHANGED other_vars

\* save_current_file (Ctrl+S): no QA; the file is written, the dirty flag
\* is reset and the autosave file removed.
SaveCurrentFile ==
    /\ is_dirty' = FALSE
    /\ autosave_file' = NoFile
    /\ UNCHANGED units
    /\ UNCHANGED other_vars

Next ==
    \/ OpenFile
    \/ SetData
    \/ OnBatchTranslationResult
    \/ OnSegmentRepaired
    \/ OnWorkbenchApply
    \/ Lock
    \/ Unlock
    \/ ClearTarget
    \/ RunQA
    \/ SaveFile
    \/ SaveCurrentFile

Spec == InitApp /\ [][Next]_vars

(***************************************************************************)
(* QAService.run_qa (core/services/qa_service.py) on a list of units, some *)
(* of them locked, some of them carrying the result of an earlier QA run.  *)
(***************************************************************************)
\* The QA fields left on a unit by an earlier run on the target "a".
qa_unit_seen(unit) ==
    [qa_unit_no_skip([unit EXCEPT !.target_abstracted = <<"a">>, !.state = "translated"])
        EXCEPT !.target_abstracted = unit.target_abstracted, !.state = unit.state]

QAUnits ==
    UNION {{u, qa_unit_seen(u)} :
              u \in {[source_abstracted |-> src, target_abstracted |-> tgt,
                      tags_map |-> <<>>, state |-> st, errors |-> <<>>,
                      tag_stats |-> <<>>, qa_status |-> "ok", qa_details |-> <<>>] :
                        src \in {<<"a">>, <<"{", "1", "}">>}, tgt \in AppTexts,
                        st \in {"translated", "locked"}}}

InitQARun ==
    /\ pc = "input"
    /\ QAIdle
    /\ SplitIdle
    /\ GuardIdle
    /\ AbsIdle
    /\ \E n \in 0..MaxQAUnits : units \in [1..n -> QAUnits]
    /\ autosave_file = <<>>
    /\ is_dirty = FALSE
    /\ qa_counts = <<0, 0>>
    /\ WbIdle
    /\ RunIdle
    /\ FsIdle

QARun ==
    /\ pc = "input"
    /\ units' = run_qa(units)
    /\ qa_counts' = qa_count_loop(units, 1, 0, 0)
    /\ pc' = "qa_run"
    /\ UNCHANGED <<autosave_file, is_dirty, qa_vars, split_vars, guard_vars, abs_vars, wb_vars,
                 run_vars, fs_vars>>

NextQARun == QARun

SpecQARun == InitQARun /\ [][NextQARun]_vars

(***************************************************************************)
(* The AI workbench (desktop_app.py 2026-2281, ui/workbench_frame.py):     *)
(* Add Context, Send, the worker's response, Apply, together with the row  *)
(* selection and the load of another file.  Two files can be opened; both  *)
(* number their trans-units "1", "2".  The recovery prompt of a load is    *)
(* answered No, so autosave_file is the patch beside the open file.        *)
(* pending_target and the diff view only feed the display and are left     *)
(* out.                                                                    *)
(***************************************************************************)
\* The <source> markup of the files the user can open.
WorkbenchDocuments ==
    <<SourceDocument, << <<"a">>, <<"<ph id=\"1\"/>">> >> >>

\* The id attribute of the trans-unit at each position, in every file.
UnitIds == <<"1", "2">>

load_document(doc) == [u \in Units |-> load_unit(doc[u], <<>>, "new")]

\* f"[ID:{id}]" is one element of a text.
IdTag(id) == IF id = "1" THEN "[ID:1]" ELSE "[ID:2]"
IsIdTag(c) == c \in {"[ID:1]", "[ID:2]"}
IdTagDigits(c) == IF c = "[ID:1]" THEN "1" ELSE "2"

IsSpace(c) == c \in {" ", "\n"}

RECURSIVE lstrip(_)
lstrip(s) == IF s # <<>> /\ IsSpace(Head(s)) THEN lstrip(Tail(s)) ELSE s

RECURSIVE rstrip(_)
rstrip(s) == IF s # <<>> /\ IsSpace(s[Len(s)])
             THEN rstrip(SubSeq(s, 1, Len(s) - 1)) ELSE s

strip(s) == rstrip(lstrip(s))

\* Texts returned by the AI client: those of AppTexts and three in the
\* batch format.
ResponseTexts ==
    AppTexts \cup
    {<<"[ID:1]", "a", "\n", "[ID:2]", "{", "1", "}">>,
     <<"[ID:2]", "a">>,
     <<"a", "\n", "a">>}

\* combined_source of the multi-segment branch, before strip().
RECURSIVE combined_source(_, _)
combined_source(us, rows) ==
    IF rows = <<>> THEN <<>>
    ELSE <<IdTag(UnitIds[Head(rows)]), " ">> \o us[Head(rows)].source_abstracted
            \o <<"\n">> \o combined_source(us, Tail(rows))

\* sorted(proxy_indexes, key=row)
RECURSIVE rows_sorted(_)
rows_sorted(rows) ==
    IF rows = {} THEN <<>>
    ELSE LET r == CHOOSE x \in rows : \A y \in rows : x <= y
         IN <<r>> \o rows_sorted(rows \ {r})

\* The first unit of self.units whose id is uid, or 0.
find_unit(us, uid) ==
    IF \E i \in DOMAIN us : UnitIds[i] = uid
    THEN CHOOSE i \in DOMAIN us :
            UnitIds[i] = uid /\ \A j \in DOMAIN us : UnitIds[j] = uid => i <= j
    ELSE 0

\* The index of the first "[ID:n]" of s at or after i, or Len(s) + 1.
RECURSIVE next_id_tag(_, _)
next_id_tag(s, i) ==
    IF i > Len(s) THEN Len(s) + 1
    ELSE IF IsIdTag(s[i]) THEN i ELSE next_id_tag(s, i + 1)

\* pattern.findall(new_text): (digits, content) of every "[ID:n]", the
\* content running to the next "[ID:n]" or to the end.
RECURSIVE id_findall(_, _)
id_findall(s, i) ==
    LET j == next_id_tag(s, i)
    IN IF j > Len(s) THEN <<>>
       ELSE LET k == next_id_tag(s, j + 1)
            IN << <<IdTagDigits(s[j]), lstrip(SubSeq(s, j + 1, k - 1))>> >>
                  \o id_findall(s, k)

dict_set(d, k, v) ==
    IF dict_has(d, k)
    THEN [i \in DOMAIN d |-> IF d[i][1] = k THEN <<k, v>> ELSE d[i]]
    ELSE Append(d, <<k, v>>)

\* {int(m[0]): m[1].strip() for m in matches}
RECURSIVE matches_dict(_, _)
matches_dict(matches, d) ==
    IF matches = <<>> THEN d
    ELSE matches_dict(Tail(matches),
                      dict_set(d, Head(matches)[1], strip(Head(matches)[2])))

\* str.split('\n')
RECURSIVE split_lines(_, _)
split_lines(s, cur) ==
    IF s = <<>> THEN <<cur>>
    ELSE IF Head(s) = "\n" THEN <<cur>> \o split_lines(Tail(s), <<>>)
    ELSE split_lines(Tail(s), Append(cur, Head(s)))

\* re.split on "[ID:n]"
RECURSIVE split_id_tags(_, _)
split_id_tags(s, cur) ==
    IF s = <<>> THEN <<cur>>
    ELSE IF IsIdTag(Head(s)) THEN <<cur>> \o split_id_tags(Tail(s), <<>>)
    ELSE split_id_tags(Tail(s), Append(cur, Head(s)))

stripped_nonempty(parts) ==
    LET keep == SelectSeq(parts, LAMBDA p : strip(p) # <<>>)
    IN [i \in DOMAIN keep |-> strip(keep[i])]

starts_with_ai(line) ==
    /\ Len(line) >= 3
    /\ line[1] \in {"a", "A"} /\ line[2] \in {"i", "I"} /\ line[3] = ":"

\* re.sub(r'^\[ID:\d+\]\s*', '', content)
drop_leading_id(content) ==
    IF content # <<>> /\ IsIdTag(Head(content)) THEN lstrip(Tail(content))
    ELSE content

RECURSIVE map_by_order(_, _, _)
map_by_order(ids, values, i) ==
    IF i > Len(ids) THEN <<>>
    ELSE << <<ids[i], values[i]>> >> \o map_by_order(ids, values, i + 1)

\* result_map of the batch branch before the question about missing ids.
\* The keys made by the regex are int, the ids of the units are str: keys
\* records which of the two the dict holds, and a str id is in the dict
\* only when the keys are str.
batch_result_map(new_text, ids) ==
    LET by_regex == matches_dict(id_findall(new_text, 1), <<>>)
        lines0 == stripped_nonempty(split_lines(strip(new_text), <<>>))
        lines == IF Len(lines0) > Len(ids) /\ starts_with_ai(lines0[1])
                 THEN Tail(lines0) ELSE lines0
        chunks == stripped_nonempty(split_id_tags(new_text, <<>>))
        sorted_ai_ids == sorted([i \in DOMAIN by_regex |-> <<by_regex[i][1]>>])
    IN IF by_regex = <<>>
       THEN IF Len(lines) = Len(ids)
            THEN [keys |-> "str",
                  items |-> map_by_order(ids, [i \in DOMAIN lines |->
                                                 drop_leading_id(lines[i])], 1)]
            ELSE IF Len(chunks) = Len(ids)
                 THEN [keys |-> "str", items |-> map_by_order(ids, chunks, 1)]
            ELSE [keys |-> "str", items |-> <<>>]
       ELSE IF Len(by_regex) = Len(ids)
            THEN [keys |-> "str",
                  items |-> map_by_order(ids,
                               [i \in DOMAIN sorted_ai_ids |->
                                   dict_get(by_regex, sorted_ai_ids[i][1])], 1)]
       ELSE [keys |-> "int", items |-> by_regex]

in_result_map(uid, result_map) ==
    result_map.keys = "str" /\ dict_has(result_map.items, uid)

\* The loop of the batch branch that writes result_map into the units.
batch_write(us, ids, result_map) ==
    [u \in DOMAIN us |->
        IF /\ \E i \in DOMAIN ids : ids[i] = UnitIds[u]
           /\ find_unit(us, UnitIds[u]) = u
           /\ in_result_map(UnitIds[u], result_map)
           /\ us[u].target_abstracted # dict_get(result_map.items, UnitIds[u])
        THEN [us[u] EXCEPT !.target_abstracted = dict_get(result_map.items, UnitIds[u]),
                           !.state = "edited"]
        ELSE us[u]]

wb_other_vars == <<pc, qa_vars, split_vars, guard_vars, abs_vars, svc_vars,
                   run_vars, fs_vars>>

InitWorkbench ==
    /\ pc = "workbench"
    /\ QAIdle
    /\ SplitIdle
    /\ GuardIdle
    /\ AbsIdle
    /\ SvcIdle
    /\ \E d \in DOMAIN WorkbenchDocuments : units = load_document(WorkbenchDocuments[d])
    /\ autosave_file = NoFile
    /\ is_dirty = FALSE
    /\ workbench = NoWorkbench
    /\ active_unit_index_map = -1
    /\ selection = {}
    /\ wb_worker = "idle"
    /\ RunIdle
    /\ FsIdle

\* open_file: update_data resets the table model, which clears the
\* selection without a currentRowChanged signal; nothing of the workbench
\* and not active_unit_index_map is written.
load_file ==
    /\ \E d \in DOMAIN WorkbenchDocuments :
            units' = load_document(WorkbenchDocuments[d])
    /\ autosave_file' = NoFile
    /\ selection' = {}
    /\ UNCHANGED <<is_dirty, workbench, active_unit_index_map, wb_worker>>
    /\ UNCHANGED wb_other_vars

\* The user changes the selection of the table; the current row reaches
\* update_ui_for_unit.
on_current_row_changed ==
    /\ \E row \in Units, rows \in SUBSET Units :
            /\ active_unit_index_map' = row
            /\ selection' = rows
    /\ UNCHANGED <<app_vars, workbench, wb_worker>>
    /\ UNCHANGED wb_other_vars

on_workbench_request_context ==
    /\ selection # {}
    /\ LET rows == rows_sorted(selection)
       IN IF Len(rows) = 1
          THEN workbench' =
                  [workbench EXCEPT !.pending_source = units[rows[1]].source_abstracted,
                                    !.apply_btn = FALSE,
                                    !.pending_unit_id = UnitIds[rows[1]],
                                    !.pending_unit_ids = <<>>]
          ELSE workbench' =
                  [workbench EXCEPT !.pending_source = strip(combined_source(units, rows)),
                                    !.apply_btn = FALSE,
                                    !.pending_unit_id = "None",
                                    !.pending_unit_ids = [i \in DOMAIN rows |-> UnitIds[rows[i]]]]
    /\ UNCHANGED <<app_vars, active_unit_index_map, selection, wb_worker>>
    /\ UNCHANGED wb_other_vars

\* set_loading(True) disables the Send button until the worker answers.
on_workbench_send ==
    /\ wb_worker = "idle"
    /\ workbench.pending_source # <<>>
    /\ wb_worker' = "running"
    /\ UNCHANGED <<app_vars, workbench, active_unit_index_map, selection>>
    /\ UNCHANGED wb_other_vars

\* The error signal of the worker.
on_workbench_error ==
    /\ wb_worker = "running"
    /\ wb_worker' = "idle"
    /\ UNCHANGED <<app_vars, workbench, active_unit_index_map, selection>>
    /\ UNCHANGED wb_other_vars

on_workbench_response ==
    /\ wb_worker = "running"
    /\ wb_worker' = "idle"
    /\ \E response_text \in ResponseTexts :
          LET unit == IF workbench.pending_unit_id \in {"unset", "None"} THEN 0
                      ELSE find_unit(units, workbench.pending_unit_id)
          IN workbench' =
                [workbench EXCEPT
                    !.pending_new_text = response_text,
                    !.apply_btn =
                        IF workbench.pending_unit_ids # <<>> THEN TRUE
                        ELSE IF unit # 0
                             THEN validate(units[unit].source_abstracted, response_text,
                                           units[unit].tags_map).valid
                        ELSE @]
    /\ UNCHANGED <<app_vars, active_unit_index_map, selection>>
    /\ UNCHANGED wb_other_vars

\* The user clicks the enabled Apply button; reply answers the question
\* about missing ids of the batch branch.
on_workbench_apply ==
    /\ workbench.apply_btn
    /\ LET new_text == workbench.pending_new_text
           ids == workbench.pending_unit_ids
       IN IF ids # <<>>
          THEN \E reply \in {"Yes", "No"} :
                 LET result_map == batch_result_map(new_text, ids)
                     missing_ids == SelectSeq(ids, LAMBDA uid :
                                                 ~ in_result_map(uid, result_map))
                     written == batch_write(units, ids, result_map)
                 IN IF missing_ids # <<>> /\ reply = "No"
                    THEN UNCHANGED <<app_vars, workbench>>
                    ELSE IF written # units
                         THEN /\ units' = written
                              /\ is_dirty' = TRUE
                              /\ autosave_file' = save_patch(autosave_file, written)
                              /\ workbench' = [workbench EXCEPT !.apply_btn = FALSE,
                                                                !.pending_unit_ids = <<>>]
                    ELSE UNCHANGED <<app_vars, workbench>>
          ELSE IF active_unit_index_map < 0
               THEN UNCHANGED <<app_vars, workbench>>
          ELSE IF /\ workbench.pending_unit_id # "unset"
                  /\ workbench.pending_unit_id # UnitIds[active_unit_index_map]
               THEN UNCHANGED <<app_vars, workbench>>
          ELSE IF units[active_unit_index_map].target_abstracted # new_text
               THEN /\ units' = [units EXCEPT
                                   ![active_unit_index_map].target_abstracted = new_text,
                                   ![active_unit_index_map].state = "edited"]
                    /\ is_dirty' = TRUE
                    /\ autosave_file' = save_patch(autosave_file, units')
                    /\ workbench' = [workbench EXCEPT !.apply_btn = FALSE]
          ELSE UNCHANGED <<app_vars, workbench>>
    /\ UNCHANGED <<active_unit_index_map, selection, wb_worker>>
    /\ UNCHANGED wb_other_vars

NextWorkbench ==
    \/ load_file
    \/ on_current_row_changed
    \/ on_workbench_request_context
    \/ on_workbench_send
    \/ on_workbench_error
    \/ on_workbench_response
    \/ on_workbench_apply

SpecWorkbench == InitWorkbench /\ [][NextWorkbench]_vars

(***************************************************************************)
(* The target cell (core/xliff_model.py flags and setData, the same code   *)
(* as desktop_app.py 135-160) and the pending AI proposal of a unit        *)
(* (ui/modern/widgets/translation_table.py).  Here a unit holds its        *)
(* target, its state and pending_target.                                   *)
(***************************************************************************)
PyNone == <<"None">>

FlagRows == {1, 2}

\* QAbstractTableModel.flags of a valid index.
super_flags == {"ItemIsSelectable", "ItemIsEnabled"}

\* XliffTableModel.flags(index) for the row of unit and a column.
flags(unit, column) ==
    IF column = 6 /\ unit.state # "locked"
    THEN super_flags \cup {"ItemIsEditable"}
    ELSE super_flags

\* `not unit.pending_target`
no_pending(unit) == unit.pending_target \in {PyNone, <<>>}

InitFlags ==
    /\ pc = "flags"
    /\ QAIdle
    /\ SplitIdle
    /\ GuardIdle
    /\ AbsIdle
    /\ SvcIdle
    /\ WbIdle
    /\ RunIdle
    /\ FsIdle
    /\ units = [r \in FlagRows |->
                  [target_abstracted |-> <<>>, state |-> "new",
                   pending_target |-> PyNone]]
    /\ autosave_file = <<>>
    /\ is_dirty = FALSE

\* An AI proposal is stored on the unit (test_target_edit_flags.py:12).
set_pending ==
    /\ \E r \in FlagRows, proposal \in AppTexts \ {<<>>} :
          units' = [units EXCEPT ![r].pending_target = proposal]
    /\ UNCHANGED <<autosave_file, is_dirty>>
    /\ UNCHANGED other_vars

accept_pending ==
    /\ \E r \in FlagRows :
          /\ ~ no_pending(units[r])
          /\ units' = [units EXCEPT ![r].target_abstracted = units[r].pending_target,
                                    ![r].pending_target = PyNone,
                                    ![r].state = "translated"]
    /\ UNCHANGED <<autosave_file, is_dirty>>
    /\ UNCHANGED other_vars

reject_pending ==
    /\ \E r \in FlagRows :
          /\ ~ no_pending(units[r])
          /\ units' = [units EXCEPT ![r].pending_target = PyNone]
    /\ UNCHANGED <<autosave_file, is_dirty>>
    /\ UNCHANGED other_vars

\* ModernTranslationTable.set_status from the context menu.
set_status ==
    /\ \E r \in FlagRows, status \in {"translated", "locked"} :
          units' = [units EXCEPT ![r].state = status]
    /\ UNCHANGED <<autosave_file, is_dirty>>
    /\ UNCHANGED other_vars

\* The view commits an edit of a cell whose flags hold ItemIsEditable.
setData ==
    /\ \E r \in FlagRows, value \in AppTexts :
          /\ "ItemIsEditable" \in flags(units[r], 6)
          /\ units[r].state # "locked"
          /\ units[r].target_abstracted # value
          /\ units' = [units EXCEPT ![r].target_abstracted = value,
                                    ![r].state = "edited"]
    /\ UNCHANGED <<autosave_file, is_dirty>>
    /\ UNCHANGED other_vars

NextFlags ==
    \/ set_pending
    \/ accept_pending
    \/ reject_pending
    \/ set_status
    \/ setData

SpecFlags == InitFlags /\ [][NextFlags]_vars

(***************************************************************************)
(* TranslationWorker (core/workers.py) and the handlers MainWindow         *)
(* connects to its signals (desktop_app.py, start_translation).            *)
(***************************************************************************)
MaxWorkerUnits == 11

batch_size == 10

\* The id of the unit at position k, a str as the parser reads it.
unit_id(k) == ToString(10 + k)

WorkerTranslation == <<"a">>

InitWorker ==
    /\ pc = "worker"
    /\ QAIdle
    /\ SplitIdle
    /\ GuardIdle
    /\ AbsIdle
    /\ SvcIdle
    /\ WbIdle
    /\ RunIdle
    /\ FsIdle
    /\ \E n \in 1..MaxWorkerUnits :
          units = [k \in 1..n |->
                     [id |-> unit_id(k), source_abstracted |-> <<"a">>,
                      target_abstracted |-> <<>>, state |-> "new"]]
    /\ autosave_file = <<>>
    /\ is_dirty = FALSE

worker_other_vars == <<pc, qa_vars, split_vars, guard_vars, abs_vars, svc_vars,
                       wb_vars, fs_vars>>

\* The button Translate All: a client is built, the button is disabled and
\* a worker is started on all units.
start_translation ==
    /\ pc = "worker"
    /\ btn_trans = TRUE
    /\ trans_worker.phase # "loop"
    /\ Len(units) > 0
    /\ btn_trans' = FALSE
    /\ trans_worker' = [phase |-> "loop", i |-> 0, total |-> Len(units),
                        is_running |-> TRUE]
    /\ client_calls' = <<>>
    /\ UNCHANGED <<signals, app_vars>>
    /\ UNCHANGED worker_other_vars

\* units[i:i + batch_size] of run, as positions.
batch_of(w) ==
    {k \in 1..w.total : k > w.i /\ k <= w.i + batch_size}

\* One iteration of the loop of run: translate_batch returns one result for
\* every segment, returns no result, or raises.
run_batch ==
    /\ pc = "worker"
    /\ trans_worker.phase = "loop"
    /\ trans_worker.i < trans_worker.total
    /\ trans_worker.is_running
    /\ client_calls' = Append(client_calls,
                              [method |-> "translate_batch",
                               ids |-> {units[k].id : k \in batch_of(trans_worker)}])
    /\ \E outcome \in {"results", "empty", "raise"} :
          IF outcome = "raise"
          THEN /\ signals' = Append(signals, [name |-> "error", res_map |-> {}])
               /\ trans_worker' = [trans_worker EXCEPT !.phase = "ended"]
          ELSE /\ signals' = Append(signals,
                    [name |-> "batch_finished",
                     res_map |-> IF outcome = "results"
                                 THEN {<<units[k].id, WorkerTranslation>> :
                                          k \in batch_of(trans_worker)}
                                 ELSE {}])
               /\ trans_worker' = [trans_worker EXCEPT !.i = @ + batch_size]
    /\ UNCHANGED <<btn_trans, app_vars>>
    /\ UNCHANGED worker_other_vars

\* The loop of run ends, by exhaustion or by the break on is_running.
run_exit ==
    /\ pc = "worker"
    /\ trans_worker.phase = "loop"
    /\ trans_worker.i >= trans_worker.total \/ ~trans_worker.is_running
    /\ signals' = Append(signals, [name |-> "finished", res_map |-> {}])
    /\ trans_worker' = [trans_worker EXCEPT !.phase = "ended"]
    /\ UNCHANGED <<btn_trans, client_calls, app_vars>>
    /\ UNCHANGED worker_other_vars

\* TranslationWorker.stop, called by closeEvent on a running worker.
stop ==
    /\ pc = "worker"
    /\ trans_worker.phase = "loop"
    /\ trans_worker.is_running
    /\ trans_worker' = [trans_worker EXCEPT !.is_running = FALSE]
    /\ UNCHANGED <<btn_trans, client_calls, signals, app_vars>>
    /\ UNCHANGED worker_other_vars

\* on_batch_translation_result on the units; the autosave that follows
\* writes every unit with a target.
on_batch_translation_result(us, res_map) ==
    [k \in DOMAIN us |->
        IF \E e \in res_map : e[1] = us[k].id /\ e[2] # us[k].target_abstracted
        THEN [us[k] EXCEPT
                 !.target_abstracted = (CHOOSE e \in res_map : e[1] = us[k].id)[2],
                 !.state = "translated"]
        ELSE us[k]]

\* The main thread runs the slot connected to the oldest queued signal:
\* on_batch_translation_result, on_trans_finished, or the lambda that shows
\* the error message box.
deliver_signal ==
    /\ pc = "worker"
    /\ signals # <<>>
    /\ signals' = Tail(signals)
    /\ LET sig == Head(signals)
       IN /\ btn_trans' = IF sig.name = "finished" THEN TRUE ELSE btn_trans
          /\ IF sig.name = "batch_finished"
                /\ on_batch_translation_result(units, sig.res_map) # units
             THEN /\ units' = on_batch_translation_result(units, sig.res_map)
                  /\ is_dirty' = TRUE
                  /\ autosave_file' =
                        [k \in {j \in DOMAIN units' :
                                    units'[j].target_abstracted # <<>>} |->
                            [target |-> units'[k].target_abstracted,
                             state |-> units'[k].state]]
             ELSE UNCHANGED app_vars
    /\ UNCHANGED <<trans_worker, client_calls>>
    /\ UNCHANGED worker_other_vars

NextWorker == start_translation \/ run_batch \/ run_exit \/ stop \/ deliver_signal

SpecWorker == InitWorker /\ [][NextWorker]_vars

\* The worker thread and the event loop of the main thread keep running.
SpecWorkerLive ==
    SpecWorker /\ WF_vars(run_batch) /\ WF_vars(run_exit) /\ WF_vars(deliver_signal)

(***************************************************************************)
(* Autosaver.save_patch (core/autosave.py) and MainWindow.atomic_save_file *)
(* (desktop_app.py), one file-system call at a time.                       *)
(***************************************************************************)
MaxSaves == 3

SaveRoutines == {"save_patch", "atomic_save_file"}

\* self.autosave_path of save_patch, target_path of atomic_save_file.
path_of(routine) ==
    IF routine = "save_patch" THEN "autosave_path" ELSE "target_path"

\* The opened file exists; an autosave file may be left from earlier edits.
InitFs ==
    /\ pc = "fs"
    /\ QAIdle
    /\ SplitIdle
    /\ GuardIdle
    /\ AbsIdle
    /\ AppIdle
    /\ SvcIdle
    /\ WbIdle
    /\ RunIdle
    /\ \E autosaved \in {Missing, <<"complete", 0>>} :
          disk = [autosave_path |-> autosaved, target_path |-> <<"complete", 0>>,
                  temp_name |-> Missing]
    /\ save_op = NoSave
    /\ xliff_file = NoXliff

fs_other_vars == <<pc, qa_vars, split_vars, guard_vars, abs_vars, app_vars,
                   svc_vars, wb_vars, run_vars, xliff_file>>

\* tempfile.NamedTemporaryFile(dir=dir_name, delete=False): an empty file.
create_temp ==
    /\ pc = "fs"
    /\ save_op.step = "idle"
    /\ save_op.new < MaxSaves
    /\ \E routine \in SaveRoutines :
          save_op' = [routine |-> routine, step |-> "created",
                      old |-> disk[path_of(routine)], new |-> save_op.new + 1]
    /\ disk' = [disk EXCEPT !.temp_name = <<"empty", 0>>]
    /\ UNCHANGED fs_other_vars

\* json.dump(payload, tf) / parser.update_targets(units, temp_name): the
\* content reaches the temporary file in two writes.
write_temp ==
    /\ pc = "fs"
    /\ save_op.step \in {"created", "writing"}
    /\ IF save_op.step = "created"
       THEN /\ disk' = [disk EXCEPT !.temp_name = <<"partial", save_op.new>>]
            /\ save_op' = [save_op EXCEPT !.step = "writing"]
       ELSE /\ disk' = [disk EXCEPT !.temp_name = <<"complete", save_op.new>>]
            /\ save_op' = [save_op EXCEPT !.step = "written"]
    /\ UNCHANGED fs_other_vars

\* if os.path.exists(path): os.remove(path)
remove_target ==
    /\ pc = "fs"
    /\ save_op.step = "written"
    /\ disk' = [disk EXCEPT ![path_of(save_op.routine)] = Missing]
    /\ save_op' = [save_op EXCEPT !.step = "removed"]
    /\ UNCHANGED fs_other_vars

\* os.replace(temp_name, path), and the routine returns.
replace_target ==
    /\ pc = "fs"
    /\ save_op.step = "removed"
    /\ disk' = [disk EXCEPT ![path_of(save_op.routine)] = disk.temp_name,
                            !.temp_name = Missing]
    /\ save_op' = [save_op EXCEPT !.step = "idle"]
    /\ UNCHANGED fs_other_vars

\* A call after the creation of the temporary file raises: the except
\* clause removes the temporary file, and the routine ends.
save_failed ==
    /\ pc = "fs"
    /\ save_op.step \in {"created", "writing", "written", "removed"}
    /\ disk' = [disk EXCEPT !.temp_name = Missing]
    /\ save_op' = [save_op EXCEPT !.step = "idle"]
    /\ UNCHANGED fs_other_vars

\* The process dies inside the routine; the paths stay as they are.
crash ==
    /\ pc = "fs"
    /\ save_op.step \in {"created", "writing", "written", "removed"}
    /\ save_op' = [save_op EXCEPT !.step = "crashed"]
    /\ UNCHANGED disk
    /\ UNCHANGED fs_other_vars

NextFs ==
    create_temp \/ write_temp \/ remove_target \/ replace_target \/ save_failed \/ crash

SpecFs == InitFs /\ [][NextFs]_vars

(***************************************************************************)
(* The legacy Validator (core/validator.py).                               *)
(***************************************************************************)
ValidatorError(type, details) == [type |-> type, details |-> details]

\* The count check replaced by a comparison of the two lists, position by
\* position.
validate_structure_ordered(source_abstracted, target_abstracted) ==
    LET source_placeholders == valid_token_findall(source_abstracted)
        target_placeholders == valid_token_findall(target_abstracted)
        source_set == {source_placeholders[i] : i \in DOMAIN source_placeholders}
        target_set == {target_placeholders[i] : i \in DOMAIN target_placeholders}
    IN (IF source_placeholders # target_placeholders
        THEN <<ValidatorError("count", <<Len(source_placeholders),
                                         Len(target_placeholders)>>)>>
        ELSE <<>>)
       \o [i \in 1..Len(SelectSeq(target_placeholders,
                                  LAMBDA ph : ph \notin source_set)) |->
             ValidatorError("hallucinated",
                 SelectSeq(target_placeholders, LAMBDA ph : ph \notin source_set)[i])]
       \o [i \in 1..Len(SelectSeq(source_placeholders,
                                  LAMBDA ph : ph \notin target_set)) |->
             ValidatorError("missing",
                 SelectSeq(source_placeholders, LAMBDA ph : ph \notin target_set)[i])]

\* Validator.validate_structure on tu.source_abstracted, tu.target_abstracted:
\* the list of errors, each with the values its message is formatted from.
validate_structure(source_abstracted, target_abstracted) ==
    LET source_placeholders == valid_token_findall(source_abstracted)
        target_placeholders == valid_token_findall(target_abstracted)
        source_set == {source_placeholders[i] : i \in DOMAIN source_placeholders}
        target_set == {target_placeholders[i] : i \in DOMAIN target_placeholders}
    IN (IF Len(source_placeholders) # Len(target_placeholders)
        THEN <<ValidatorError("count", <<Len(source_placeholders),
                                         Len(target_placeholders)>>)>>
        ELSE <<>>)
       \o [i \in 1..Len(SelectSeq(target_placeholders,
                                  LAMBDA ph : ph \notin source_set)) |->
             ValidatorError("hallucinated",
                 SelectSeq(target_placeholders, LAMBDA ph : ph \notin source_set)[i])]
       \o [i \in 1..Len(SelectSeq(source_placeholders,
                                  LAMBDA ph : ph \notin target_set)) |->
             ValidatorError("missing",
                 SelectSeq(source_placeholders, LAMBDA ph : ph \notin target_set)[i])]

(***************************************************************************)
(* A file is opened and saved without an edit: the loop that fills         *)
(* self.units (open_file, load_file), then atomic_save_file.               *)
(***************************************************************************)
MaxLoadLen == 2

\* Content of <source> and of <target>: text and two inline elements.
LoadPieces == {<<"a">>, <<"<ph id=\"1\"/>">>, <<"<g id=\"2\"/>">>}

InitLoad ==
    /\ pc = "file"
    /\ QAIdle
    /\ SplitIdle
    /\ GuardIdle
    /\ AbsIdle
    /\ AppIdle
    /\ SvcIdle
    /\ WbIdle
    /\ RunIdle
    /\ disk = NoDisk
    /\ save_op = NoSave
    /\ \E s \in Texts(LoadPieces, MaxLoadLen), t \in Texts(LoadPieces, MaxLoadLen) :
          xliff_file = [source_raw |-> s, target_raw |-> t, opened_target |-> t]

load_other_vars == <<qa_vars, split_vars, guard_vars, abs_vars, svc_vars,
                     wb_vars, run_vars, disk, save_op>>

\* The inline elements of a <target>, in document order.
inline_tags(raw) == SelectSeq(raw, IsTag)

\* The body of the loop over raw_units, for the unit of the file.
open_unit ==
    /\ pc = "file"
    /\ units' = <<load_unit(xliff_file.source_raw, xliff_file.target_raw,
                            IF xliff_file.target_raw # <<>> THEN "translated"
                            ELSE "new")
                  @@ [target_raw |-> xliff_file.target_raw]>>
    /\ pc' = "loaded"
    /\ UNCHANGED <<autosave_file, is_dirty, xliff_file>>
    /\ UNCHANGED load_other_vars

\* XliffParser.update_targets for one unit: a non-empty target_raw replaces
\* the content of <target>; when it does not parse, the abstracted text is
\* written as text.
update_targets(file, unit) ==
    IF unit.target_raw = <<>> THEN file
    ELSE IF parses(unit.target_raw, 1, <<>>)
         THEN [file EXCEPT !.target_raw = tostring(unit.target_raw)]
    ELSE [file EXCEPT !.target_raw = unit.target_abstracted]

\* atomic_save_file: every unit with a target is reconstructed from its own
\* tags_map, then the parser writes the units.
save_unit ==
    /\ pc = "loaded"
    /\ LET rebuilt ==
              [k \in DOMAIN units |->
                  IF units[k].target_abstracted # <<>>
                  THEN [units[k] EXCEPT !.target_raw =
                            reconstruct(units[k].target_abstracted, units[k].tags_map)]
                  ELSE units[k]]
       IN /\ units' = rebuilt
          /\ xliff_file' = update_targets(xliff_file, rebuilt[1])
    /\ pc' = "saved"
    /\ UNCHANGED <<autosave_file, is_dirty>>
    /\ UNCHANGED load_other_vars

NextLoad == open_unit \/ save_unit

SpecLoad == InitLoad /\ [][NextLoad]_vars

(***************************************************************************)
(* Properties of check_unit.                                               *)
(***************************************************************************)
\* s holds a "{" that is not immediately followed by one or more digits
\* and then "}".
HasMalformedBrace(s) ==
    \E i \in DOMAIN s :
        /\ s[i] = "{"
        /\ ~ \E j \in (i + 2)..Len(s) :
                 /\ s[j] = "}"
                 /\ \A k \in (i + 1)..(j - 1) : IsDigit(s[k])

\* The list check_unit reports for one category (absent means empty).
DetailsOf(r, kind) == IF kind \in DOMAIN r.qa_details THEN r.qa_details[kind] ELSE <<>>

IssueTypes(r) == {r.issues[i].type : i \in DOMAIN r.issues}

SrcTokens == valid_token_findall(source_text)
TgtTokens == valid_token_findall(target_text)
AllTokens == Range(SrcTokens) \cup Range(TgtTokens)
                \cup Range(DetailsOf(qa_result, "missing"))
                \cup Range(DetailsOf(qa_result, "extra"))

\* C4 (as stated): for every text S made of plain text and valid tokens,
\* the empty text included, check_unit(S, S, "translated") is ok with no
\* issues.
C4_Original ==
    (pc = "checked" /\ unit_state = "translated" /\ target_text = source_text
        /\ ~ HasMalformedBrace(source_text))
    => (qa_result.status = "ok" /\ qa_result.issues = <<>>)

\* C4 (amended): for every NON-EMPTY text S in which every "{" starts a
\* valid token, check_unit(S, S, "translated") is ok with no issues.
C4_IdenticalNonEmptyIsOk ==
    (pc = "checked" /\ unit_state = "translated" /\ target_text = source_text
        /\ source_text # <<>> /\ ~ HasMalformedBrace(source_text))
    => (qa_result.status = "ok" /\ qa_result.issues = <<>>)

C4_Witness ==
    /\ pc = "checked" /\ unit_state = "translated"
    /\ target_text = source_text
    /\ Len(SrcTokens) = 2
    /\ qa_result.status = "ok"

\* C7: the missing list holds each token max(0, c_s - c_t) times and the
\* extra list holds it max(0, c_t - c_s) times, counting occurrences.
C7_MultisetCounts ==
    pc = "checked" =>
        LET src == SrcTokens
            tgt == TgtTokens
            missing == DetailsOf(qa_result, "missing")
            extra == DetailsOf(qa_result, "extra")
        IN \A t \in Range(src) \cup Range(tgt) \cup Range(missing) \cup Range(extra) :
               /\ Occ(t, missing) = Max(0, Occ(t, src) - Occ(t, tgt))
               /\ Occ(t, extra) = Max(0, Occ(t, tgt) - Occ(t, src))

\* A token that occurs twice in the source and once in the target is
\* reported missing once.
C7_Witness ==
    /\ pc = "checked"
    /\ \E t \in AllTokens :
          /\ Occ(t, SrcTokens) = 2
          /\ Occ(t, TgtTokens) = 1
          /\ Occ(t, DetailsOf(qa_result, "missing")) = 1

\* Some token occurs more often in a than in b.
HasMore(a, b) == \E t \in Range(a) : Occ(t, a) > Occ(t, b)
ErrorKinds ==
    LET src == SrcTokens
        tgt == TgtTokens
    IN (IF HasMore(src, tgt) THEN {"missing"} ELSE {})
       \cup (IF HasMore(tgt, src) THEN {"extra"} ELSE {})
       \cup (IF HasMalformedBrace(target_text) THEN {"invalid"} ELSE {})
ExpectsContent == target_text = <<>> /\ unit_state \in {"translated", "edited"}

\* C8: status is error iff missing, extra or invalid is non-empty, each
\* non-empty category adding one error issue; otherwise warning with one
\* issue of type empty iff the target is empty and the state is translated
\* or edited; otherwise ok with no issues.
C8_StatusDecision ==
    pc = "checked" =>
        LET kinds == ErrorKinds
            status == qa_result.status
            issues == qa_result.issues
        IN /\ status = "error" <=> kinds # {}
           /\ status = "error" =>
                 /\ IssueTypes(qa_result) = kinds
                 /\ Len(issues) = Cardinality(kinds)
                 /\ \A i \in DOMAIN issues : issues[i].severity = "error"
           /\ status = "warning" <=> (kinds = {} /\ ExpectsContent)
           /\ status = "warning" =>
                 /\ Len(issues) = 1
                 /\ issues[1].type = "empty"
                 /\ issues[1].severity = "warning"
           /\ status = "ok" <=> (kinds = {} /\ ~ ExpectsContent)
           /\ status = "ok" => issues = <<>>

C8_Witness ==
    /\ pc = "checked"
    /\ qa_result.status = "warning"
    /\ unit_state = "edited"
    /\ source_text # <<>>

\* C9: an invalid issue is reported iff the target holds a "{" that is not
\* immediately followed by digits and "}", whatever the source and
\* whatever the missing/extra result.
C9_InvalidIffMalformed ==
    pc = "checked" =>
        ("invalid" \in IssueTypes(qa_result) <=> HasMalformedBrace(target_text))

\* An unterminated "{1" after a complete token set: invalid is the only issue.
C9_Witness ==
    /\ pc = "checked"
    /\ IssueTypes(qa_result) = {"invalid"}
    /\ SrcTokens # <<>>
    /\ \E i \in DOMAIN target_text :
          target_text[i] = "{" /\ i < Len(target_text) /\ IsDigit(target_text[i + 1])
             /\ TokenEnd(target_text, i) = 0

(***************************************************************************)
(* Properties of split_by_known_tokens / reassemble_from_chunks.           *)
(***************************************************************************)
\* C1: for every text T and key set K, split returns and reassembling its
\* chunks and tokens yields exactly T.
C1_RoundTrip ==
    /\ pc = "split" => ~ split_result.raised
    /\ pc = "reassembled" => (~ reassembled.raised /\ reassembled.value = text)

\* C2: for every text T and key set K, split returns a result with
\* len(text_chunks) = len(tokens) + 1.
C2_ChunkTokenInvariant ==
    pc \in {"split", "reassembled"} =>
        /\ ~ split_result.raised
        /\ Len(split_result.text_chunks) = Len(split_result.tokens) + 1

\* C16: for every text T and key set K, strip_known_tokens(T, K) equals
\* the concatenation of the chunks that split_by_known_tokens(T, K)
\* returns.
C16_StripIsJoinedChunks ==
    pc = "stripped" =>
        /\ ~ split_result.raised
        /\ stripped = Flatten(split_result.text_chunks)

\* The elements of a finite set of integers, ascending.
RECURSIVE Ascending(_)
Ascending(S) ==
    IF S = {} THEN <<>>
    ELSE LET m == CHOOSE x \in S : \A y \in S : x <= y
         IN <<m>> \o Ascending(S \ {m})

\* The indexes of s at which a "{N}" with N in keys starts.
KnownTokenStarts(s, keys) ==
    {i \in DOMAIN s : TokenEnd(s, i) # 0
                        /\ SubSeq(s, i + 1, TokenEnd(s, i) - 1) \in keys}

BagOfList(seq) == [x \in Range(seq) |-> Occ(x, seq)]

\* C5: the missing and extra lists of TokenGuard.validate equal, as
\* multisets, those QAChecker.check_unit computes for the same two texts.
C5_GuardAgreesWithQA ==
    pc = "validated" =>
        LET qa == check_unit(source_text, target_text, "translated")
        IN /\ BagOfList(guard_result.missing) = BagOfList(DetailsOf(qa, "missing"))
           /\ BagOfList(guard_result.extra) = BagOfList(DetailsOf(qa, "extra"))

\* Both lists non-empty, one of them with a duplicate.
C5_Witness ==
    /\ pc = "validated"
    /\ \E t \in Range(guard_result.extra) : Occ(t, guard_result.extra) = 2
    /\ guard_result.missing # <<>>

\* The fragment stored under index i of d is a NAME element whose id
\* attribute is rid.
IsPairTag(d, i, name, rid) ==
    /\ TagTable[d[i][2][1]].name = name
    /\ \E a \in Range(TagTable[d[i][2][1]].attrs) : a[1] = "id" /\ a[2] = rid

SemanticIds == {"1", "2", "9"}

\* Each semantic id names at most one bpt and at most one ept (the case
\* the pairing map is defined for).
UniquePairIds(d) ==
    \A rid \in SemanticIds : \A name \in {"bpt", "ept"} :
        Cardinality({i \in DOMAIN d : IsPairTag(d, i, name, rid)}) <= 1

TokenOf(d, i) == <<"{">> \o d[i][1] \o <<"}">>

FirstIndex(seq, x) == CHOOSE i \in DOMAIN seq : seq[i] = x /\ \A k \in 1..(i - 1) : seq[k] # x

\* The inversions the claim asks for: a bpt and an ept of one semantic id,
\* both tokens in the target, the bpt token first occurring after the ept
\* token.
ExpectedPairingErrors ==
    LET tt == valid_token_findall(target_text)
    IN {<<"Broken Pair", TokenOf(tags_map, b), TokenOf(tags_map, e)>> :
          <<b, e>> \in {p \in (DOMAIN tags_map) \X (DOMAIN tags_map) :
              /\ \E rid \in SemanticIds : /\ IsPairTag(tags_map, p[1], "bpt", rid)
                                          /\ IsPairTag(tags_map, p[2], "ept", rid)
              /\ TokenOf(tags_map, p[1]) \in Range(tt)
              /\ TokenOf(tags_map, p[2]) \in Range(tt)
              /\ FirstIndex(tt, TokenOf(tags_map, p[1])) > FirstIndex(tt, TokenOf(tags_map, p[2]))}}

\* C6: a pairing error is recorded exactly for the inversions above, and
\* it makes valid false even when missing and extra are empty.
C6_PairingErrors ==
    (pc = "validated" /\ UniquePairIds(tags_map)) =>
        /\ Range(guard_result.pairing_errors) = ExpectedPairingErrors
        /\ Len(guard_result.pairing_errors) = Cardinality(ExpectedPairingErrors)
        /\ ExpectedPairingErrors # {} => ~ guard_result.valid

(***************************************************************************)
(* Properties of TagAbstractor.                                            *)
(***************************************************************************)
\* x is plain text interleaved with catalog inline tags, each tag written
\* as the parser serializes it: every tag of x is an empty-element tag
\* with a catalog name and no namespace declaration, or belongs to a
\* balanced non-empty catalog element.
RECURSIVE IsCatalogFragment(_)
IsCatalogFragment(x) ==
    IF x = <<>> THEN TRUE
    ELSE IF Kind(x[1]) = "chr" THEN IsCatalogFragment(Tail(x))
    ELSE IF Kind(x[1]) = "empty"
         THEN /\ TagTable[x[1]].name \in INLINE_TAG_LOCALNAMES
              /\ \A a \in Range(TagTable[x[1]].attrs) : a[1] # "xmlns"
              /\ IsCatalogFragment(Tail(x))
    ELSE IF Kind(x[1]) = "open"
         THEN /\ TagTable[x[1]].name \in INLINE_TAG_LOCALNAMES
              /\ \E j \in 3..Len(x) :
                    /\ Kind(x[j]) = "close"
                    /\ TagTable[x[j]].name = TagTable[x[1]].name
                    /\ \A k \in 2..(j - 1) : Kind(x[k]) = "chr"
                    /\ IsCatalogFragment(SubSeq(x, j + 1, Len(x)))
    ELSE FALSE

\* C3: for every fragment x of plain text and catalog tags,
\* reconstruct(abstract(x)) puts every tag back at its place and leaves
\* every plain-text run as it was, i.e. gives x back, plain text that
\* holds brace-digit sequences included.
C3_AbstractReconstruct ==
    (pc = "reconstructed" /\ IsCatalogFragment(raw_xml)) => recon = raw_xml

\* Number of elements open at index i of a fragment.
Depth(raw, i) ==
    Cardinality({j \in 1..(i - 1) : Kind(raw[j]) = "open"})
        - Cardinality({j \in 1..(i - 1) : Kind(raw[j]) = "close"})

\* The indexes at which a top-level element with a catalog name starts.
TopLevelCatalogStarts(raw) ==
    {i \in DOMAIN raw : /\ Depth(raw, i) = 0
                        /\ Kind(raw[i]) \in {"open", "empty"}
                        /\ TagTable[raw[i]].name \in INLINE_TAG_LOCALNAMES}

\* The index of the tag that ends the element starting at i.
ElementEnd(raw, i) ==
    IF Kind(raw[i]) # "open" THEN i
    ELSE CHOOSE j \in (i + 1)..Len(raw) :
            /\ Kind(raw[j]) = "close" /\ Depth(raw, j) = Depth(raw, i) + 1
            /\ \A m \in (i + 1)..(j - 1) :
                  ~ (Kind(raw[m]) = "close" /\ Depth(raw, m) = Depth(raw, i) + 1)

\* C17: abstract numbers the tokens from 1: the keys of tags_map are
\* "1".."k" in order, k is the number of top-level catalog elements of a
\* well-formed fragment, tags_map[i] is the i-th of them, and the i-th
\* token of abstracted_text, left to right, is {i}.
C17_TokensNumberedInOrder ==
    pc = "abstracted" =>
        LET tm == abs_result.tags_map
            k == Len(tm)
            toks == valid_token_findall(abs_result.abstracted_text)
            starts == Ascending(TopLevelCatalogStarts(raw_xml))
        IN /\ \A i \in 1..k : tm[i][1] = str(i)
           /\ parses(raw_xml, 1, <<>>) =>
                 /\ k = Len(starts)
                 /\ \A i \in 1..k :
                       tm[i][2] = strip_xmlns(tostring(
                                     SubSeq(raw_xml, starts[i],
                                            ElementEnd(raw_xml, starts[i]))))
           /\ \A i \in 1..k : Len(toks) >= i /\ toks[i] = placeholder(i)

Verbatim(element) == element

\* An element as lxml writes it back, namespace declarations removed.
Reserialized(element) == strip_xmlns(tostring(element))

\* The text the claim describes for a well-formed fragment, from index i
\* with n tokens emitted: a top-level catalog element becomes the token
\* {n + 1} whatever it holds; a comment and a character stay; a top-level
\* non-catalog element is emitted verbatim or as it is written back.
RECURSIVE TokenizedTopLevel(_, _, _, _)
TokenizedTopLevel(raw, i, n, written_back) ==
    IF i > Len(raw) THEN <<>>
    ELSE IF i \in TopLevelCatalogStarts(raw)
         THEN placeholder(n + 1)
                 \o TokenizedTopLevel(raw, ElementEnd(raw, i) + 1, n + 1, written_back)
    ELSE IF Kind(raw[i]) \in {"open", "empty"}
         THEN (IF written_back
               THEN Reserialized(SubSeq(raw, i, ElementEnd(raw, i)))
               ELSE Verbatim(SubSeq(raw, i, ElementEnd(raw, i))))
                 \o TokenizedTopLevel(raw, ElementEnd(raw, i) + 1, n, written_back)
    ELSE <<raw[i]>> \o TokenizedTopLevel(raw, i + 1, n, written_back)

TokenStarts(s) == {i \in DOMAIN s : TokenEnd(s, i) # 0}

\* s with every "{N}" whose N is a key of d replaced by d[N] and all the
\* rest, the other "{N}" included, left as it is.
KnownReplaced(s, d) ==
    LET starts == Ascending(TokenStarts(s))
        n == Len(starts)
        before(k) == SubSeq(s, IF k = 1 THEN 1 ELSE TokenEnd(s, starts[k - 1]) + 1,
                            starts[k] - 1)
        key(k) == SubSeq(s, starts[k] + 1, TokenEnd(s, starts[k]) - 1)
        put(k) == IF dict_has(d, key(k)) THEN dict_get(d, key(k))
                  ELSE SubSeq(s, starts[k], TokenEnd(s, starts[k]))
    IN Flatten([k \in 1..n |-> before(k) \o put(k)])
          \o SubSeq(s, IF n = 0 THEN 1 ELSE TokenEnd(s, starts[n]) + 1, Len(s))

\* C19: for any text and any tags_map, reconstruct returns the text with
\* every "{N}" whose N is a key replaced by tags_map[N], every other "{N}"
\* left as the literal "{N}" and all other text unchanged.
C19_ReconstructReplacesKnown ==
    pc = "reconstructed" =>
        recon = KnownReplaced(abs_result.abstracted_text, abs_result.tags_map)

\* A text with a token that is a key, a token that is not and a malformed
\* brace has been reconstructed.
C19_Witness ==
    /\ pc = "reconstructed"
    /\ \E i \in TokenStarts(abs_result.abstracted_text) :
          dict_has(abs_result.tags_map,
                   SubSeq(abs_result.abstracted_text, i + 1,
                          TokenEnd(abs_result.abstracted_text, i) - 1))
    /\ \E i \in TokenStarts(abs_result.abstracted_text) :
          ~ dict_has(abs_result.tags_map,
                     SubSeq(abs_result.abstracted_text, i + 1,
                            TokenEnd(abs_result.abstracted_text, i) - 1))
    /\ invalid_token_findall(abs_result.abstracted_text) # <<>>

\* s without the braces that QAChecker reports as invalid: every "{" that
\* does not start a "{N}".
WithoutMalformed(s) ==
    Flatten([i \in DOMAIN s |-> IF s[i] = "{" /\ TokenEnd(s, i) = 0 THEN <<>>
                                ELSE <<s[i]>>])

\* C20: TokenGuard.validate returns valid exactly when missing, extra and
\* pairing_errors are empty, and its result is the one it returns for the
\* target without its malformed braces.
C20_ValidIgnoresMalformedBraces ==
    pc = "validated" =>
        /\ guard_result.valid <=> /\ guard_result.missing = <<>>
                                  /\ guard_result.extra = <<>>
                                  /\ guard_result.pairing_errors = <<>>
        /\ guard_result = validate(source_text, WithoutMalformed(target_text), tags_map)

\* A target with a malformed brace next to the token of the source has
\* been validated and found valid.
C20_Witness ==
    /\ pc = "validated"
    /\ extract_tokens(source_text) # <<>>
    /\ invalid_token_findall(target_text) # <<>>
    /\ guard_result.valid

(***************************************************************************)
(* Properties of the MainWindow handlers.                                  *)
(***************************************************************************)
\* This step is one of the target-changing transitions (manual cell edit,
\* batch translation result, repair result, workbench apply, clear target)
\* and changes the target of the non-locked unit u, or it is an autosave
\* recovery that restores u as a non-locked unit.
ChangesTargetOf(u) ==
    \/ /\ \/ SetData
          \/ OnBatchTranslationResult
          \/ OnSegmentRepaired
          \/ OnWorkbenchApply
          \/ ClearTarget
       /\ units[u].state # "locked"
       /\ units'[u].target_abstracted # units[u].target_abstracted
    \/ /\ OpenFile
       /\ autosave_file.exists
       /\ autosave_file' = autosave_file
       /\ autosave_file.units[u].target # Absent
       /\ units'[u].state # "locked"

\* C10: after every transition that changes the target text of a
\* non-locked unit, the stored qa_status of the unit is the status that
\* check_unit gives for the new target.
C10_QARecalculated ==
    [][\A u \in Units :
          ChangesTargetOf(u) =>
              units'[u].qa_status =
                  check_unit(units'[u].source_abstracted, units'[u].target_abstracted,
                             units'[u].state).status]_vars

\* C11: a unit that leaves state locked becomes edited when its target
\* text is non-empty and needs_translation otherwise.  (A step that reads
\* the units again from a file is not a step of the unit.)
C11_LeavesLocked ==
    [][~ OpenFile =>
          \A u \in Units :
              (units[u].state = "locked" /\ units'[u].state # "locked") =>
                  units'[u].state =
                      IF units'[u].target_abstracted # <<>>
                      THEN "edited" ELSE "needs_translation"]_vars

(***************************************************************************)
(* Properties of QAService.run_qa.                                         *)
(***************************************************************************)
\* C12: a QA run leaves qa_status, tag_stats, qa_details and errors of
\* every locked unit as they were, and the error and warning totals it
\* returns count the units that are not locked only.
C12_QASkipsLocked ==
    [][QARun =>
          /\ \A i \in DOMAIN units :
                units[i].state = "locked" => units'[i] = units[i]
          /\ qa_counts' =
                <<Cardinality({i \in DOMAIN units :
                                  units[i].state # "locked" /\ units'[i].qa_status = "error"}),
                  Cardinality({i \in DOMAIN units :
                                  units[i].state # "locked" /\ units'[i].qa_status = "warning"})>>]_vars

\* After the run, a locked unit still carries an error status that its
\* own target would not get, beside a counted unit in error.
C12_Witness ==
    /\ pc = "qa_run"
    /\ \E i, j \in DOMAIN units :
          /\ units[i].state = "locked"
          /\ units[i].qa_status = "error"
          /\ check_unit(units[i].source_abstracted, units[i].target_abstracted,
                        "translated").status = "ok"
          /\ units[j].state # "locked"
          /\ units[j].qa_status = "error"
    /\ qa_counts = <<1, 0>>

(***************************************************************************)
(* Properties of the workbench.                                            *)
(***************************************************************************)
\* A step of the single-segment branch of on_workbench_apply.
SingleApply == on_workbench_apply /\ workbench.pending_unit_ids = <<>>

\* C13: in single-segment mode, Apply writes a text into a unit's target
\* only if TokenGuard.validate(unit.source_abstracted, text, unit.tags_map)
\* is valid for that text and that unit, whatever add-context, send,
\* response, file-load, selection-change and apply events came before.
C13_ApplyWritesValidated ==
    [][SingleApply =>
          \A u \in Units :
              units'[u].target_abstracted # units[u].target_abstracted =>
                  validate(units[u].source_abstracted, units'[u].target_abstracted,
                           units[u].tags_map).valid]_vars

(***************************************************************************)
(* Properties of the save handlers.                                        *)
(***************************************************************************)
\* A unit whose target would be reconstructed by a save and does not pass
\* QAChecker.
FailsValidation(unit) ==
    /\ unit.target_abstracted # <<>>
    /\ check_unit(unit.source_abstracted, unit.target_abstracted,
                  unit.state).status = "error"

\* A step that reconstructs the targets and writes them to a file:
\* save_current_file, or save_file when its QA run found no error.
WritesFile ==
    \/ SaveCurrentFile
    \/ SaveFile /\ \A u \in Units : units'[u].qa_status # "error"

\* C14: Save and Export reconstruct and write the targets only when no
\* unit's current target fails token validation.
C14_SaveValidatesFirst ==
    [][WritesFile => \A u \in Units : ~ FailsValidation(units[u])]_vars

(***************************************************************************)
(* Properties of the target cell.                                          *)
(***************************************************************************)
\* C21: the target cell of a unit is editable exactly when the unit is not
\* locked and holds no pending AI proposal.
C21_EditableIffNoPending ==
    pc = "flags" =>
        \A r \in DOMAIN units :
            ("ItemIsEditable" \in flags(units[r], 6))
                <=> (units[r].state # "locked" /\ units[r].pending_target = PyNone)

(***************************************************************************)
(* Properties of the TranslationWorker.                                    *)
(***************************************************************************)
\* C22: every translate_batch call for a unit is a fallback, made after a
\* translate_text_chunks call for the same unit.
C22_ChunksBeforeBatch ==
    pc = "worker" =>
        \A j \in DOMAIN client_calls :
            client_calls[j].method = "translate_batch" =>
                \A id \in client_calls[j].ids :
                    \E h \in 1..(j - 1) :
                        /\ client_calls[h].method = "translate_text_chunks"
                        /\ id \in client_calls[h].ids

\* C30: once start_translation has disabled the button and started a worker,
\* the button is enabled again, however the worker ends.
C30_ButtonReenabled ==
    (pc = "worker" /\ btn_trans = FALSE) ~> (btn_trans = TRUE)

(***************************************************************************)
(* Properties of the two save routines.                                    *)
(***************************************************************************)
\* C23: from the start of save_patch or atomic_save_file on, a crash or a
\* failure included, the path being replaced holds the complete previous
\* content or the complete new content.
C23_TargetOldOrNew ==
    (pc = "fs" /\ save_op.routine # "none" /\ save_op.old[1] = "complete") =>
        disk[path_of(save_op.routine)] \in {save_op.old, <<"complete", save_op.new>>}

(***************************************************************************)
(* Properties of the legacy Validator.                                     *)
(***************************************************************************)
\* C24: whenever Validator.validate_structure returns a non-empty list for a
\* source and a target, check_unit on the same texts returns status error.
C24_ValidatorSubsumed ==
    pc = "checked" =>
        (validate_structure(source_text, target_text) # <<>>
            => qa_result.status = "error")

\* The validator reports a target token the source lacks, with equal counts,
\* and check_unit has answered.
C24_Witness ==
    /\ pc = "checked"
    /\ Len(valid_token_findall(source_text)) = Len(valid_token_findall(target_text))
    /\ \E i \in DOMAIN validate_structure(source_text, target_text) :
          validate_structure(source_text, target_text)[i].type = "hallucinated"
    /\ qa_result.status = "error"

(***************************************************************************)
(* Properties of opening and saving a file.                                *)
(***************************************************************************)
\* C25: a file opened and saved without an edit keeps the inline tags of its
\* target, and their order.
C25_LoadSaveKeepsTargetTags ==
    pc = "saved" =>
        inline_tags(xliff_file.target_raw) = inline_tags(xliff_file.opened_target)

(***************************************************************************)
(* Properties of the regex branch of abstract.                             *)
(***************************************************************************)
\* C26: in the regex branch every tokenized span starts with a tag whose
\* name is a catalog name, and a paired span ends with the closing tag of
\* the same element.
C26_ExactNameSameElement ==
    (pc = "abstracted" /\ ~ parses(raw_xml, 1, <<>>)) =>
        \A i \in DOMAIN abs_result.tags_map :
            LET span == abs_result.tags_map[i][2]
            IN /\ TagTable[span[1]].name \in INLINE_TAG_LOCALNAMES
               /\ Len(span) > 1 =>
                     /\ Kind(span[Len(span)]) = "close"
                     /\ TagTable[span[Len(span)]].name = TagTable[span[1]].name

(***************************************************************************)
(* Properties of the single pass of reconstruct.                           *)
(***************************************************************************)
\* tags_map with its items in the opposite insertion order.
dict_reversed(d) == [i \in DOMAIN d |-> d[Len(d) + 1 - i]]

\* Where the replacement of the token that starts at i of s begins in the
\* result of a single pass over s.
InsertedAt(s, d, i) ==
    LET earlier == Ascending({j \in TokenStarts(s) : j < i})
        growth(j) == IF dict_has(d, SubSeq(s, j + 1, TokenEnd(s, j) - 1))
                     THEN Len(dict_get(d, SubSeq(s, j + 1, TokenEnd(s, j) - 1)))
                          - (TokenEnd(s, j) - j + 1)
                     ELSE 0
    IN i + SumSeq([k \in DOMAIN earlier |-> growth(earlier[k])])

\* C27: reconstruct inserts each stored fragment verbatim at the place of
\* its token, a fragment holding a "{M}" included, and returns the same
\* text whatever the order of the items of tags_map.
C27_SinglePassAnyOrder ==
    pc = "reconstructed" =>
        LET s == abs_result.abstracted_text
            d == abs_result.tags_map
        IN /\ recon = reconstruct(s, dict_reversed(d))
           /\ \A i \in TokenStarts(s) :
                 LET key == SubSeq(s, i + 1, TokenEnd(s, i) - 1)
                 IN dict_has(d, key) =>
                       SubSeq(recon, InsertedAt(s, d, i),
                              InsertedAt(s, d, i) + Len(dict_get(d, key)) - 1)
                           = dict_get(d, key)

\* A text with the token {1} has been reconstructed from a tags_map of two
\* items whose fragment for 1 is the text "{2}" while 2 stands for markup.
C27_Witness ==
    /\ pc = "reconstructed"
    /\ Len(abs_result.tags_map) = 2
    /\ dict_get(abs_result.tags_map, <<"1">>) = <<"{", "2", "}">>
    /\ dict_get(abs_result.tags_map, <<"2">>) = <<"<ph id=\"1\"/>">>
    /\ \E i \in TokenStarts(abs_result.abstracted_text) :
          SubSeq(abs_result.abstracted_text, i, i + 2) = <<"{", "1", "}">>
    /\ \E i \in DOMAIN recon : SubSeq(recon, i, i + 2) = <<"{", "2", "}">>

(***************************************************************************)
(* Properties of locked units.                                             *)
(***************************************************************************)
\* C28: no step changes the target text of a unit that is locked.  (A step
\* that reads the units again from a file is not a step of the unit.)
C28_LockedTargetUnchanged ==
    [][~ OpenFile =>
          \A u \in Units :
              units[u].state = "locked" =>
                  units'[u].target_abstracted = units[u].target_abstracted]_vars

(***************************************************************************)
(* Properties of autosave and recovery.                                    *)
(***************************************************************************)
\* C29: after a step that writes the autosave patch, the patch applied to
\* a fresh load of the file gives every unit the target text and the state
\* it has in memory.  The file is any file the units may have come from.
C29_RecoveryRestoresMemory ==
    [][(autosave_file' # autosave_file /\ autosave_file'.exists) =>
          \E ft \in [Units -> UNION {FileTargets(u) : u \in Units}] :
              /\ \A u \in Units : ft[u] \in FileTargets(u)
              /\ LET loaded == [u \in Units |->
                                  load_unit(source_raw_of(u), ft[u].target_raw,
                                            ft[u].state)]
                     recovered == apply_recovery(loaded, autosave_file')
                 IN \A u \in Units :
                       /\ recovered[u].target_abstracted = units'[u].target_abstracted
                       /\ recovered[u].state = units'[u].state]_vars

====
